---- MODULE Spec2Model ----
(***************************************************************************)
(* A model of the documentation generator: the semantic retrieval tool     *)
(* (RAGMilvusTool), the two-agent DocumentationCrew, the web form, the     *)
(* GitLab tool, the chat-completion wrappers and the agent factory.        *)
(* Each component has its own specification; the variables of the other    *)
(* components stay at their initial values.                                *)
(***************************************************************************)
EXTENDS Integers, Sequences, FiniteSets, TLC

\* ------------------------------------------------------------------ bounds

\* Most agents the factory is asked for (a full crew has four).
MaxAgents == 4

\* Largest top_k a tool is constructed with (the vector search returns at
\* most `limit` = top_k hits).
MaxTopK == 3

\* Longest writer answer drawn from all token lists (longer ones are listed).
MaxOutputLen == 2

\* ------------------------------------------------------------ python values

PyNone == [t |-> "none"]
PyStr(s) == [t |-> "str", v |-> s]
PyBytes(s) == [t |-> "bytes", v |-> s]
PyInt(n) == [t |-> "int", v |-> n]
\* A float, held in hundredths.
PyFloat(h) == [t |-> "float", v |-> h]
PyList(s) == [t |-> "list", v |-> s]

Ok(x) == [ok |-> TRUE, value |-> x]
Raise(e, m) == [ok |-> FALSE, exc |-> e, msg |-> m]

\* The exception classes the tool meets; all of them derive from Exception.
ExceptionClasses ==
    {"RuntimeError", "KeyError", "IndexError", "TypeError", "ValueError",
     "HTTPError", "Timeout", "ConnectionError", "MilvusException"}

\* float(x)
PyFloatOf(x) ==
    CASE x.t = "float" -> Ok(x)
      [] x.t = "int" -> Ok(PyFloat(x.v * 100))
      [] x.t = "str" -> Raise("ValueError", <<"could not convert string to float">>)
      [] OTHER -> Raise("TypeError", <<"float() argument must be a string or a real number">>)

\* json.dumps accepts str, numbers, None, lists and dicts; bytes is refused.
JsonSerializable(x) == x.t # "bytes"

\* ------------------------------------------------------------- the RAG tool

RAG_COLLECTION_NAME == "combined_item"

Queries == {"What is user income data?", "Tell me about DGE"}

\* The rank of a tag in Python's string order ("DGE" < "N/A" < "dge" < ...);
\* None is only ever sorted alone.
SourceRank(s) ==
    IF s.t = "none" THEN 0
    ELSE LET order == <<"DGE", "N/A", "dge", "user_income">>
         IN  CHOOSE i \in 1..Len(order) : order[i] = s.v

\* The hits the index may return: well-formed ones, one without a source
\* field, one whose source is None, and malformed ones.
HitGood1 == [distance |-> PyFloat(90), entity |-> [text |-> PyStr("income doc"), source |-> PyStr("user_income")]]
HitGood2 == [distance |-> PyFloat(50), entity |-> [text |-> PyStr("dge doc"), source |-> PyStr("dge")]]
HitUpper == [distance |-> PyFloat(50), entity |-> [text |-> PyStr("DGE doc"), source |-> PyStr("DGE")]]
HitNoSource == [distance |-> PyInt(1), entity |-> [text |-> PyStr("genie doc")]]
HitNoText == [distance |-> PyFloat(70), entity |-> [source |-> PyStr("dge")]]

Hits ==
    {HitGood1, HitGood2, HitUpper, HitNoSource, HitNoText,
     [distance |-> PyFloat(20), entity |-> [text |-> PyStr("pills doc"), source |-> PyNone]],
     [distance |-> PyNone, entity |-> [text |-> PyStr("dge doc"), source |-> PyStr("dge")]],
     [distance |-> PyFloat(10), entity |-> [text |-> PyBytes("raw"), source |-> PyStr("dge")]]}

SeqsUpTo(S, n) == UNION {[1..k -> S] : k \in 0..n}

\* What the embedding endpoint may answer to one POST.
EmbeddingResponses ==
    {[kind |-> "timeout"], [kind |-> "connection"],
     [kind |-> "response", status |-> 500, body |-> [detail |-> "error"]],
     [kind |-> "response", status |-> 200, body |-> [detail |-> "no data"]],
     [kind |-> "response", status |-> 200, body |-> [data |-> <<>>]],
     [kind |-> "response", status |-> 200, body |-> [data |-> <<[embedding |-> PyNone]>>]],
     [kind |-> "response", status |-> 200, body |-> [data |-> <<[embedding |-> PyStr("AAAA")]>>]],
     [kind |-> "response", status |-> 200, body |-> [data |-> <<[embedding |-> PyList(<<1, 2>>)]>>]],
     [kind |-> "response", status |-> 200, body |-> [data |-> <<[embedding |-> PyList(<<3, 4>>)]>>]]}

VARIABLES
    db_path_exists,   \* os.path.exists(self.db_path) at construction
    client_created,   \* MilvusClient(self.db_path) did not raise
    initialized,      \* self._initialized
    client,           \* self._client
    top_k,            \* self.top_k
    pc,               \* position of the current _run
    query,            \* the argument of the current _run
    embed_request,    \* <<payload>> once the POST to the embedding endpoint was made
    embed_response,   \* <<answer>> once the endpoint answered
    query_vector,     \* <<v>> once _generate_embedding returned v
    search_limit,     \* <<n>> once client.search(limit=n) was issued
    search_results,   \* <<r>> once client.search returned r
    results,          \* the local list `results`
    sources,          \* the local set `sources`
    ret,              \* <<value>> once _run returned value
    raised,           \* the exception class that escaped _run, or "None"
    trace             \* the stages of the current _run, in order

ragVars ==
    <<db_path_exists, client_created, initialized, client, top_k, pc, query,
      embed_request, embed_response, query_vector, search_limit,
      search_results, results, sources, ret, raised, trace>>

VARIABLES
    doc_crew,      \* the DocumentationCrew object: its tool and its two LLMs
    crew,          \* <<c>> once generate_documentation built the Crew c
    cpc,           \* position of generate_documentation
    crew_project,  \* its argument
    executed,      \* the tasks the crew has finished, in order, with outputs
    doc,           \* <<d>> once generate_documentation returned d
    craised        \* the exception class that escaped it, or "None"

crewVars == <<doc_crew, crew, cpc, crew_project, executed, doc, craised>>

VARIABLES
    project_input,        \* the GitLab Project text input
    enable_drive,         \* the Google Drive checkbox
    enable_rag,           \* the knowledge-base checkbox
    output_file,          \* the Output Filename text input
    validation_feedback,  \* "none", "valid" or "invalid"
    agent_count,          \* the Active Agents metric
    app_pc,               \* position of the generation run
    crew_args,            \* <<switches>> the crew of the run was built with
    progress,             \* the values given to the progress bar, in order
    status_text,          \* the status line
    shown,                \* the messages and widgets the run has rendered
    documentation,        \* <<d>> once generate_documentation returned d
    output_path,          \* <<p>> once save_documentation returned p
    generate_button,      \* the value st.button gave the current script run
    raised_in             \* the step of the run an exception came from, or "none"

appVars ==
    <<project_input, enable_drive, enable_rag, output_file, validation_feedback,
      agent_count, app_pc, crew_args, progress, status_text, shown,
      documentation, output_path, generate_button, raised_in>>

VARIABLES
    gitlab_token,    \* os.getenv('GITLAB_TOKEN', '')
    gpc,             \* position of the current GitLabMCPTool._run
    gl_project,      \* its argument
    gl_calls,        \* the _get_* methods it has called, in order
    gl_log,          \* the HTTP requests made so far, each with its answer
    project_info,    \* <<v>> once _get_project_info returned v
    file_structure,  \* <<v>> once _get_file_structure returned v
    commits,         \* <<v>> once _get_recent_commits returned v
    readme,          \* <<v>> once _get_readme returned v
    readme_at,       \* the filename and the branch _get_readme asks for next
    gl_ret           \* <<s>> once _run returned s

gitlabVars ==
    <<gitlab_token, gpc, gl_project, gl_calls, gl_log, project_info,
      file_structure, commits, readme, readme_at, gl_ret>>

VARIABLES
    llm_env,       \* os.getenv("CUSTOM_LLM_API_KEY")
    llm_obj,       \* <<object>> once a wrapper was constructed
    llm_ctor,      \* <<call>> the class and the arguments of the last constructor call
    llm_pc,        \* "none", "ready" after a construction, "done" after a call
    llm_request,   \* <<request>> the POST of the last call
    llm_response,  \* <<answer>> what requests.post gave
    llm_ret,       \* <<value>> once the call returned value
    llm_raised     \* the exception class that escaped the last constructor or call

llmVars ==
    <<llm_env, llm_obj, llm_ctor, llm_pc, llm_request, llm_response, llm_ret,
      llm_raised>>

\* The agent factory.
VARIABLES
    built          \* the agents the factory functions returned, in call order

\* A step of the RAG tool leaves the other components alone.
RagFrame == UNCHANGED <<crewVars, appVars, gitlabVars, llmVars, built>>

\* A step of the crew leaves the other components alone.
CrewFrame == UNCHANGED <<ragVars, appVars, gitlabVars, llmVars, built>>

\* A step of the web form leaves the other components alone.
AppFrame == UNCHANGED <<ragVars, crewVars, gitlabVars, llmVars, built>>

\* A step of the GitLab tool leaves the other components alone.
GitLabFrame == UNCHANGED <<ragVars, crewVars, appVars, llmVars, built>>

\* A step of a chat-completion wrapper leaves the other components alone.
LLMFrame == UNCHANGED <<ragVars, crewVars, appVars, gitlabVars, built>>

\* A call of a factory function leaves the other components alone.
FactoryFrame == UNCHANGED <<ragVars, crewVars, appVars, gitlabVars, llmVars>>

\* _initialize_client: the outcome of construction.
\* A constructor that sets _initialized before it creates the client.
InitializeClientFlagFirst(exists, created) ==
    IF ~exists THEN [initialized |-> FALSE, client |-> "None"]
    ELSE IF ~created THEN [initialized |-> TRUE, client |-> "None"]
    ELSE [initialized |-> TRUE, client |-> "MilvusClient"]

InitializeClient(exists, created) ==
    IF ~exists THEN [initialized |-> FALSE, client |-> "None"]
    ELSE IF ~created THEN [initialized |-> FALSE, client |-> "None"]
    ELSE [initialized |-> TRUE, client |-> "MilvusClient"]

\* A tool that reports itself available whatever construction did.
is_availableDefaultTrue == TRUE

is_available == initialized

\* An embedding helper that swallows its failure and returns None.
GenerateEmbeddingSwallow(resp) ==
    IF /\ resp.kind = "response"
       /\ resp.status < 400
       /\ "data" \in DOMAIN resp.body
       /\ Len(resp.body.data) > 0
       /\ resp.body.data[1].embedding.t \in {"list", "str"}
    THEN Ok(resp.body.data[1].embedding)
    ELSE Ok(PyNone)

\* _generate_embedding on the endpoint's answer: every failure is re-raised
\* as RuntimeError. len(embedding) is evaluated for the debug message.
GenerateEmbedding(resp) ==
    LET wrap(inner) == Raise("RuntimeError", <<"Failed to generate embedding: ", inner>>)
    IN  IF resp.kind = "timeout" THEN wrap("Timeout")
        ELSE IF resp.kind = "connection" THEN wrap("ConnectionError")
        ELSE IF resp.status >= 400 THEN wrap("HTTPError")
        ELSE IF "data" \notin DOMAIN resp.body THEN wrap("KeyError")
        ELSE IF Len(resp.body.data) = 0 THEN wrap("IndexError")
        ELSE IF "embedding" \notin DOMAIN resp.body.data[1] THEN wrap("KeyError")
        ELSE LET embedding == resp.body.data[1].embedding
             IN  IF embedding.t \in {"list", "str"} THEN Ok(embedding)
                 ELSE wrap("TypeError")

\* The JSON body posted to the embedding endpoint.
EmbeddingPayload(text) ==
    [model |-> "embedding_model", input |-> text, encoding_format |-> "float"]

\* An except clause that only catches RuntimeError.
CaughtRuntimeOnly(exc) == exc = "RuntimeError"

\* The clause `except Exception' of _run.
Caught(exc) == exc \in ExceptionClasses

\* An except clause that hands back the hits shaped so far.
ErrorOutputPartial(exc, msg, q) ==
    [error |-> <<"Error searching knowledge base: ">> \o msg, query |-> q,
     results |-> results]

\* The value returned by the except clause of _run.
ErrorOutput(exc, msg, q) ==
    [error |-> <<"Error searching knowledge base: ">> \o msg, query |-> q]

UnavailableOutput ==
    [error |-> <<"RAG Milvus tool not available. Check database path and initialization.">>]

\* A search that asks for one hit more than top_k.
SearchLimitOffByOne == top_k + 1

\* The limit passed to client.search.
SearchLimit == top_k

\* What client.search may do for a request with the given data and limit:
\* raise, or return one list of at most `limit` hits per query vector.
SearchResponses(data, limit) ==
    {Raise("MilvusException", <<"search failed">>)}
      \cup (IF data.t = "list"
            THEN {Ok(<<>>)} \cup {Ok(<<h>>) : h \in SeqsUpTo(Hits, limit)}
            ELSE {})

\* One iteration of the loop over search_results[0].
ShapeHit(hit) ==
    IF "entity" \notin DOMAIN hit THEN Raise("KeyError", <<"entity">>)
    ELSE LET source == IF "source" \in DOMAIN hit.entity THEN hit.entity.source
                       ELSE PyStr("N/A")
         IN  IF "distance" \notin DOMAIN hit THEN Raise("KeyError", <<"distance">>)
             ELSE IF ~PyFloatOf(hit.distance).ok
                  THEN Raise(PyFloatOf(hit.distance).exc, PyFloatOf(hit.distance).msg)
             ELSE IF "text" \notin DOMAIN hit.entity THEN Raise("KeyError", <<"text">>)
             ELSE Ok([score |-> PyFloatOf(hit.distance).value,
                      text |-> hit.entity.text,
                      source |-> source])

\* A loop that puts each new entry in front.
PrependResult(res, entry) == <<entry>> \o res

\* results.append(...)
AppendResult(res, entry) == Append(res, entry)

\* sorted(list(sources)): None does not compare with str.
RECURSIVE SortedList(_)
SortedList(S) ==
    IF S = {} THEN <<>>
    ELSE LET m == CHOOSE x \in S : \A y \in S : SourceRank(x) <= SourceRank(y)
         IN  <<m>> \o SortedList(S \ {m})

\* list(sources) without sorted(): here, the tags in descending order.
RECURSIVE DescendingList(_)
DescendingList(S) ==
    IF S = {} THEN <<>>
    ELSE LET m == CHOOSE x \in S : \A y \in S : SourceRank(x) >= SourceRank(y)
         IN  <<m>> \o DescendingList(S \ {m})

Unsorted(S) == Ok(DescendingList(S))

Sorted(S) ==
    IF Cardinality(S) > 1 /\ \E x \in S : x.t = "none"
    THEN Raise("TypeError", <<"'<' not supported between instances">>)
    ELSE Ok(SortedList(S))

\* The object handed to json.dumps on success.
SuccessOutput(q, res, srcs) ==
    [query |-> q,
     collection |-> RAG_COLLECTION_NAME,
     results_count |-> Len(res),
     sources_found |-> srcs,
     results |-> res]

\* json.dumps of the success object.
JsonDumps(obj) ==
    IF \A i \in 1..Len(obj.results) : JsonSerializable(obj.results[i].text)
    THEN Ok(obj)
    ELSE Raise("TypeError", <<"Object of type bytes is not JSON serializable">>)

\* Leaving the try block of _run with exception exc.
Fail(exc, msg, stage) ==
    /\ pc' = "done"
    /\ trace' = trace \o <<stage>>
    /\ IF Caught(exc)
       THEN ret' = <<ErrorOutput(exc, msg, query)>> /\ raised' = "None"
       ELSE ret' = <<>> /\ raised' = exc

RagInit ==
    /\ db_path_exists \in BOOLEAN
    /\ client_created \in BOOLEAN
    /\ initialized = InitializeClient(db_path_exists, client_created).initialized
    /\ client = InitializeClient(db_path_exists, client_created).client
    /\ top_k \in 1..MaxTopK
    /\ pc = "idle"
    /\ query = ""
    /\ embed_request = <<>>
    /\ embed_response = <<>>
    /\ query_vector = <<>>
    /\ search_limit = <<>>
    /\ search_results = <<>>
    /\ results = <<>>
    /\ sources = {}
    /\ ret = <<>>
    /\ raised = "None"
    /\ trace = <<>>

\* A _run whose result list and source set are attributes of the tool and
\* outlive the call.
RunKeepsResults(q) ==
    /\ RagFrame
    /\ pc \in {"idle", "done"}
    /\ query' = q
    /\ embed_response' = <<>>
    /\ query_vector' = <<>>
    /\ search_limit' = <<>>
    /\ search_results' = <<>>
    /\ raised' = "None"
    /\ IF ~is_available
       THEN /\ ret' = <<UnavailableOutput>>
            /\ pc' = "done"
            /\ embed_request' = <<>>
            /\ trace' = <<"unavailable">>
       ELSE /\ ret' = <<>>
            /\ pc' = "embedding"
            /\ embed_request' = <<EmbeddingPayload(q)>>
            /\ trace' = <<"embed_request">>
    /\ UNCHANGED <<db_path_exists, client_created, initialized, client, top_k,
                   results, sources>>

\* _run(query) up to its first request: the availability check, then the
\* POST to the embedding endpoint.
Run(q) ==
    /\ RagFrame
    /\ pc \in {"idle", "done"}
    /\ query' = q
    /\ embed_response' = <<>>
    /\ query_vector' = <<>>
    /\ search_limit' = <<>>
    /\ search_results' = <<>>
    /\ results' = <<>>
    /\ sources' = {}
    /\ raised' = "None"
    /\ IF ~is_available
       THEN /\ ret' = <<UnavailableOutput>>
            /\ pc' = "done"
            /\ embed_request' = <<>>
            /\ trace' = <<"unavailable">>
       ELSE /\ ret' = <<>>
            /\ pc' = "embedding"
            /\ embed_request' = <<EmbeddingPayload(q)>>
            /\ trace' = <<"embed_request">>
    /\ UNCHANGED <<db_path_exists, client_created, initialized, client, top_k>>

\* The embedding endpoint answers; on a vector the search is issued.
EmbeddingReturns(resp) ==
    /\ RagFrame
    /\ pc = "embedding"
    /\ embed_response' = <<resp>>
    /\ LET e == GenerateEmbedding(resp)
       IN  IF ~e.ok
           THEN /\ Fail(e.exc, e.msg, "embed_failed")
                /\ UNCHANGED <<query_vector, search_limit>>
           ELSE IF client = "None"
           THEN /\ Fail("RuntimeError", <<"Milvus client not initialized">>, "no_client")
                /\ query_vector' = <<e.value>>
                /\ UNCHANGED search_limit
           ELSE /\ query_vector' = <<e.value>>
                /\ search_limit' = <<SearchLimit>>
                /\ pc' = "searching"
                /\ trace' = trace \o <<"embed_returned", "search_request">>
                /\ UNCHANGED <<ret, raised>>
    /\ UNCHANGED <<db_path_exists, client_created, initialized, client, top_k,
                   query, embed_request, search_results, results, sources>>

\* client.search answers; search_results[0] is taken for the loop.
SearchReturns(resp) ==
    /\ RagFrame
    /\ pc = "searching"
    /\ IF ~resp.ok
       THEN /\ Fail(resp.exc, resp.msg, "search_failed")
            /\ UNCHANGED search_results
       ELSE /\ search_results' = <<resp.value>>
            /\ IF Len(resp.value) = 0
               THEN Fail("IndexError", <<"list index out of range">>, "shape_failed")
               ELSE /\ pc' = "shaping"
                    /\ trace' = trace \o <<"search_returned">>
                    /\ UNCHANGED <<ret, raised>>
    /\ UNCHANGED <<db_path_exists, client_created, initialized, client, top_k,
                   query, embed_request, embed_response, query_vector,
                   search_limit, results, sources>>

\* One iteration of `for hit in search_results[0]`.
ShapeNext ==
    /\ RagFrame
    /\ pc = "shaping"
    /\ Len(results) < Len(search_results[1][1])
    /\ LET s == ShapeHit(search_results[1][1][Len(results) + 1])
       IN  IF ~s.ok
           THEN /\ Fail(s.exc, s.msg, "shape_failed")
                /\ UNCHANGED <<results, sources>>
           ELSE /\ results' = AppendResult(results, s.value)
                /\ sources' = sources \cup {s.value.source}
                /\ trace' = trace \o <<"shaped">>
                /\ UNCHANGED <<pc, ret, raised>>
    /\ UNCHANGED <<db_path_exists, client_created, initialized, client, top_k,
                   query, embed_request, embed_response, query_vector,
                   search_limit, search_results>>

\* After the loop: the summary is built, serialised and returned.
Finish ==
    /\ RagFrame
    /\ pc = "shaping"
    /\ Len(results) = Len(search_results[1][1])
    /\ LET srt == Sorted(sources)
       IN  IF ~srt.ok THEN Fail(srt.exc, srt.msg, "shape_failed")
           ELSE LET js == JsonDumps(SuccessOutput(query, results, srt.value))
                IN  IF ~js.ok THEN Fail(js.exc, js.msg, "shape_failed")
                    ELSE /\ ret' = <<js.value>>
                         /\ raised' = "None"
                         /\ pc' = "done"
                         /\ trace' = trace \o <<"returned">>
    /\ UNCHANGED <<db_path_exists, client_created, initialized, client, top_k,
                   query, embed_request, embed_response, query_vector,
                   search_limit, search_results, results, sources>>

RagNext ==
    \/ \E q \in Queries : Run(q)
    \/ \E resp \in EmbeddingResponses : EmbeddingReturns(resp)
    \/ /\ pc = "searching"
       /\ \E resp \in SearchResponses(query_vector[1], search_limit[1]) : SearchReturns(resp)
    \/ ShapeNext
    \/ Finish

\* ------------------------------------------------------- text as token lists

\* A text is a list of tokens: a code fence, a newline, a blank, a language
\* tag, the text of a JSON object, the text of a JSON array, or prose.
Fence == "<fence>"
NL == "\n"
SP == " "
Lang == "json"
JObj == "{...}"
JArr == "[1]"
Prose == "Here is the documentation"

IsSpace(c) == c \in {NL, SP}

RECURSIVE LStrip(_)
LStrip(s) ==
    IF s = <<>> THEN s
    ELSE IF IsSpace(Head(s)) THEN LStrip(Tail(s)) ELSE s

RECURSIVE RStrip(_)
RStrip(s) ==
    IF s = <<>> THEN s
    ELSE IF IsSpace(s[Len(s)]) THEN RStrip(SubSeq(s, 1, Len(s) - 1)) ELSE s

\* str.strip()
Strip(s) == RStrip(LStrip(s))

\* str.startswith(fence), the fence being three backquotes
StartsWithFence(s) == s # <<>> /\ s[1] = Fence

\* str.find(c): the 0-based index of the first c, -1 when there is none.
Find(s, c) ==
    IF \E i \in 1..Len(s) : s[i] = c
    THEN (CHOOSE i \in 1..Len(s) : s[i] = c /\ \A j \in 1..(i - 1) : s[j] # c) - 1
    ELSE -1

\* str.rfind(c): the 0-based index of the last c, -1 when there is none.
RFind(s, c) ==
    IF \E i \in 1..Len(s) : s[i] = c
    THEN (CHOOSE i \in 1..Len(s) : s[i] = c /\ \A j \in (i + 1)..Len(s) : s[j] # c) - 1
    ELSE -1

\* s[a:b] for 0 <= a and 0 <= b <= len(s)
Slice(s, a, b) == IF a < b THEN SubSeq(s, a + 1, b) ELSE <<>>

\* json.loads: one JSON value, blanks around it allowed.
JsonLoads(s) ==
    IF Strip(s) = <<JObj>> THEN Ok([json |-> "object", text |-> JObj])
    ELSE IF Strip(s) = <<JArr>> THEN Ok([json |-> "array", text |-> JArr])
    ELSE Raise("JSONDecodeError", <<"Expecting value">>)

\* ------------------------------------------------------ the DocumentationCrew

Projects == {"gopay-ds/Growth/my-project", "gopay-ds/other"}

GitLabToolName == "GitLab Project Analyzer"

\* The default of GoToCustomLLM's supports_tools parameter.
DefaultSupportsTools == FALSE

\* GoToCustomLLM.__init__ (temperature in tenths, timeout in seconds).
GoToCustomLLM(model, endpoint, temperature, supports_tools) ==
    [model |-> model, endpoint |-> endpoint, temperature |-> temperature,
     timeout |-> 300, supports_tools |-> supports_tools]

\* GoToCustomLLM.supports_function_calling
supports_function_calling(llm) == llm.supports_tools

\* DocumentationCrew.__init__
DocumentationCrewInit ==
    [gitlab_tool |-> GitLabToolName,
     gpt_oss_llm |-> GoToCustomLLM("openai/gpt-oss-120b",
                                   "https://litellm-staging.gopay.sh", 3, TRUE),
     sahabat_llm |-> GoToCustomLLM("GoToCompany/Llama-Sahabat-AI-v2-70B-IT-awq-4bit",
                                   "https://litellm-staging.gopay.sh", 6,
                                   DefaultSupportsTools)]

create_gitlab_analyzer_agent(self) ==
    [role |-> "GitLab Data Analyzer", tools |-> <<self.gitlab_tool>>,
     llm |-> self.gpt_oss_llm, allow_delegation |-> FALSE]

\* A writer that is given the tool-calling model.
create_documentation_writer_agentSameLLM(self) ==
    [role |-> "Technical Documentation Writer", tools |-> <<>>,
     llm |-> self.gpt_oss_llm, allow_delegation |-> FALSE]

create_documentation_writer_agent(self) ==
    [role |-> "Technical Documentation Writer", tools |-> <<>>,
     llm |-> self.sahabat_llm, allow_delegation |-> FALSE]

create_gitlab_fetch_task(agent, project) ==
    [kind |-> "fetch", agent |-> agent.role, project |-> project]

create_documentation_writing_task(agent, project) ==
    [kind |-> "write", agent |-> agent.role, project |-> project]

\* A crew whose task list is in the wrong order.
CrewReversed(analyzer, writer, fetch_task, write_task) ==
    [agents |-> <<analyzer, writer>>, tasks |-> <<write_task, fetch_task>>,
     process |-> "sequential"]

\* Crew(agents=[...], tasks=[...], process=Process.sequential)
Crew(analyzer, writer, fetch_task, write_task) ==
    [agents |-> <<analyzer, writer>>, tasks |-> <<fetch_task, write_task>>,
     process |-> "sequential"]

\* ------------------------------------------------------- the agent factory

\* The factory functions. A role is the AgentRole constant the function
\* names, a tool the instance of the class the parameter is annotated with.
factory_create_gitlab_analyzer_agent(llm, gitlab_tool) ==
    [role |-> "AgentRole.GITLAB_ANALYZER", tools |-> <<gitlab_tool>>, llm |-> llm,
     allow_delegation |-> FALSE]

factory_create_drive_analyzer_agent(llm, drive_tool) ==
    [role |-> "AgentRole.DRIVE_ANALYZER", tools |-> <<drive_tool>>, llm |-> llm,
     allow_delegation |-> FALSE]

\* A knowledge-base agent that is handed the GitLab tool as well.
factory_create_rag_analyzer_agentWithGitLab(llm, rag_tool) ==
    [role |-> "AgentRole.RAG_ANALYZER",
     tools |-> <<rag_tool, [class |-> "GitLabMCPTool", name |-> GitLabToolName]>>,
     llm |-> llm, allow_delegation |-> FALSE]

factory_create_rag_analyzer_agent(llm, rag_tool) ==
    [role |-> "AgentRole.RAG_ANALYZER", tools |-> <<rag_tool>>, llm |-> llm,
     allow_delegation |-> FALSE]

\* The factory's writer agent, for the LLM it is given.
factory_create_documentation_writer_agent(llm) ==
    [role |-> "AgentRole.DOCUMENTATION_WRITER", tools |-> <<>>, llm |-> llm,
     allow_delegation |-> FALSE]

FactoryInit == built = <<>>

\* One call of each factory function; the caller keeps the agent returned.
CreateGitLabAnalyzerAgent(llm, gitlab_tool) ==
    /\ FactoryFrame
    /\ Len(built) < MaxAgents
    /\ built' = Append(built, factory_create_gitlab_analyzer_agent(llm, gitlab_tool))

CreateDriveAnalyzerAgent(llm, drive_tool) ==
    /\ FactoryFrame
    /\ Len(built) < MaxAgents
    /\ built' = Append(built, factory_create_drive_analyzer_agent(llm, drive_tool))

CreateRagAnalyzerAgent(llm, rag_tool) ==
    /\ FactoryFrame
    /\ Len(built) < MaxAgents
    /\ built' = Append(built, factory_create_rag_analyzer_agent(llm, rag_tool))

CreateDocumentationWriterAgent(llm) ==
    /\ FactoryFrame
    /\ Len(built) < MaxAgents
    /\ built' = Append(built, factory_create_documentation_writer_agent(llm))

\* The callers pass one of the two models and a tool of the annotated class.
FactoryNext ==
    \E llm \in {DocumentationCrewInit.gpt_oss_llm, DocumentationCrewInit.sahabat_llm} :
        \/ CreateGitLabAnalyzerAgent(llm, [class |-> "GitLabMCPTool",
                                           name |-> GitLabToolName])
        \/ CreateDriveAnalyzerAgent(llm, [class |-> "GoogleDriveMCPTool",
                                          name |-> "Google Drive Document Analyzer"])
        \/ CreateRagAnalyzerAgent(llm, [class |-> "RAGMilvusTool",
                                        name |-> "Internal Knowledge Base Search"])
        \/ CreateDocumentationWriterAgent(llm)

\* What an analyzer agent may report, and what a writer agent may answer.
FetchOutputs == {<<Prose>>, <<JObj>>}

Tokens == {Fence, NL, SP, Lang, JObj, JArr, Prose}

WriterOutputs ==
    {<<JObj>>, <<JArr>>, <<Prose>>, <<>>,
     <<Fence, Lang, NL, JObj, NL, Fence>>,
     <<Fence, NL, JObj, NL, Fence, NL>>,
     <<Fence, Lang, NL, Prose, NL, Fence>>,
     <<NL, Fence, Lang, NL, JObj, NL, Fence>>,
     <<Fence, JObj, Fence>>,
     <<Fence, Lang, NL, JObj>>}
      \cup SeqsUpTo(Tokens, MaxOutputLen)

\* A tail of generate_documentation whose fallback keeps the text that was
\* handed to json.loads in place of the crew's output.
ParseResultKeepsCut(result, project) ==
    LET result_str ==
            IF StartsWithFence(Strip(result))
            THEN LET start == Find(result, NL)
                     end == RFind(result, Fence)
                 IN  IF start # -1 /\ end # -1
                     THEN Strip(Slice(result, start + 1, end))
                     ELSE result
            ELSE result
        parsed == JsonLoads(result_str)
    IN  IF parsed.ok THEN parsed.value
        ELSE [project |-> project,
              documentation |-> result_str,
              format |-> "text",
              note |-> "Documentation could not be parsed as JSON, returning as text"]

\* The tail of generate_documentation: the crew's result made a dictionary.
ParseResult(result, project) ==
    LET result_str ==
            IF StartsWithFence(Strip(result))
            THEN LET start == Find(result, NL)
                     end == RFind(result, Fence)
                 IN  IF start # -1 /\ end # -1
                     THEN Strip(Slice(result, start + 1, end))
                     ELSE result
            ELSE result
        parsed == JsonLoads(result_str)
    IN  IF parsed.ok THEN parsed.value
        ELSE [project |-> project,
              documentation |-> result,
              format |-> "text",
              note |-> "Documentation could not be parsed as JSON, returning as text"]


CrewInit ==
    /\ doc_crew = DocumentationCrewInit
    /\ crew = <<>>
    /\ cpc = "idle"
    /\ crew_project = ""
    /\ executed = <<>>
    /\ doc = <<>>
    /\ craised = "None"

\* The task a crew runs next: with the sequential process, the first one of
\* its list that has not run.
NextTask(c, done) == c.tasks[Len(done) + 1]

\* generate_documentation(project) up to crew.kickoff().
GenerateDocumentation(p) ==
    /\ CrewFrame
    /\ cpc \in {"idle", "done"}
    /\ crew_project' = p
    /\ LET gitlab_analyzer == create_gitlab_analyzer_agent(doc_crew)
           doc_writer == create_documentation_writer_agent(doc_crew)
           fetch_task == create_gitlab_fetch_task(gitlab_analyzer, p)
           write_task == create_documentation_writing_task(doc_writer, p)
       IN  crew' = <<Crew(gitlab_analyzer, doc_writer, fetch_task, write_task)>>
    /\ cpc' = "kickoff"
    /\ executed' = <<>>
    /\ doc' = <<>>
    /\ craised' = "None"
    /\ UNCHANGED doc_crew

\* The agent of the next task answers; after the last task kickoff returns
\* that task's output and generate_documentation parses it.
TaskCompletes(output) ==
    /\ CrewFrame
    /\ cpc = "kickoff"
    /\ LET task == NextTask(crew[1], executed)
           done == Append(executed, [task |-> task.kind, agent |-> task.agent,
                                     output |-> output])
       IN  /\ output \in (IF task.kind = "fetch" THEN FetchOutputs ELSE WriterOutputs)
           /\ executed' = done
           /\ IF Len(done) = Len(crew[1].tasks)
              THEN /\ doc' = <<ParseResult(output, crew_project)>>
                   /\ cpc' = "done"
              ELSE UNCHANGED <<doc, cpc>>
    /\ UNCHANGED <<doc_crew, crew, crew_project, craised>>

\* The LLM call of the agent of the next task raises RuntimeError, which
\* leaves kickoff and generate_documentation.
TaskFails ==
    /\ CrewFrame
    /\ cpc = "kickoff"
    /\ cpc' = "done"
    /\ craised' = "RuntimeError"
    /\ UNCHANGED <<doc_crew, crew, crew_project, executed, doc>>

CrewNext ==
    \/ \E p \in Projects : GenerateDocumentation(p)
    \/ \E output \in FetchOutputs \cup WriterOutputs : TaskCompletes(output)
    \/ TaskFails

\* ------------------------------------------------------------- the web form

\* validate_gitlab_project: namespace/project-name.
validate_gitlab_project(path) ==
    Len(path) >= 2 /\ \A i \in 1..Len(path) : path[i] # ""

\* The validation feedback under the form.
ValidationFeedback(path) ==
    IF path = <<>> THEN "none"
    ELSE IF validate_gitlab_project(path) THEN "valid" ELSE "invalid"

\* A count that forgets the knowledge-base agent.
AgentCountNoRag(drive, rag) == 2 + (IF drive THEN 1 ELSE 0)

\* agent_count: GitLab analyzer and writer, plus one per enabled integration.
AgentCount(drive, rag) ==
    2 + (IF drive THEN 1 ELSE 0) + (IF rag THEN 1 ELSE 0)


AppInit ==
    /\ project_input = <<>>
    /\ enable_drive = FALSE
    /\ enable_rag = FALSE
    /\ output_file = ""
    /\ validation_feedback = ValidationFeedback(<<>>)
    /\ agent_count = AgentCount(FALSE, FALSE)
    /\ app_pc = "idle"
    /\ crew_args = <<>>
    /\ progress = <<>>
    /\ status_text = ""
    /\ shown = {}
    /\ documentation = <<>>
    /\ output_path = <<>>
    /\ generate_button = FALSE
    /\ raised_in = "none"

\* The part of the script every rerun executes: feedback and agent status.
Render(path, drive, rag) ==
    /\ validation_feedback' = ValidationFeedback(path)
    /\ agent_count' = AgentCount(drive, rag)

\* The user changes the sidebar; the script reruns without the button.
ChangeSidebar(path, drive, rag, file) ==
    /\ AppFrame
    /\ app_pc = "idle"
    /\ <<path, drive, rag, file>> # <<project_input, enable_drive, enable_rag, output_file>>
    /\ project_input' = path
    /\ enable_drive' = drive
    /\ enable_rag' = rag
    /\ output_file' = file
    /\ Render(path, drive, rag)
    /\ crew_args' = <<>>
    /\ progress' = <<>>
    /\ status_text' = ""
    /\ shown' = {}
    /\ documentation' = <<>>
    /\ output_path' = <<>>
    /\ generate_button' = FALSE
    /\ raised_in' = "none"
    /\ UNCHANGED app_pc

\* A handler that runs every project path that is not empty.
GenerateBranchUnvalidated(path) ==
    IF path = <<>> THEN "enter_project" ELSE "run"

\* The branch the handler under the button takes for a project path.
GenerateBranch(path) ==
    IF path = <<>> THEN "enter_project"
    ELSE IF ~validate_gitlab_project(path) THEN "invalid_format"
    ELSE "run"

\* The user presses the generate button: the script reruns up to the
\* construction of the crew.
ClickGenerate ==
    /\ AppFrame
    /\ app_pc = "idle"
    /\ generate_button' = TRUE
    /\ raised_in' = "none"
    /\ Render(project_input, enable_drive, enable_rag)
    /\ documentation' = <<>>
    /\ output_path' = <<>>
    /\ IF GenerateBranch(project_input) = "enter_project"
       THEN /\ shown' = {"error_enter_project"}
            /\ progress' = <<>>
            /\ status_text' = ""
            /\ crew_args' = <<>>
            /\ UNCHANGED app_pc
       ELSE IF GenerateBranch(project_input) = "invalid_format"
       THEN /\ shown' = {"error_invalid_format"}
            /\ progress' = <<>>
            /\ status_text' = ""
            /\ crew_args' = <<>>
            /\ UNCHANGED app_pc
       ELSE /\ shown' = {}
            /\ progress' = <<0, 10>>
            /\ status_text' = "Initializing documentation crew..."
            /\ crew_args' = <<[enable_google_drive |-> enable_drive,
                               enable_rag |-> enable_rag]>>
            /\ app_pc' = "constructing"
    /\ UNCHANGED <<project_input, enable_drive, enable_rag, output_file>>

\* A run whose exceptions are swallowed without a message.
RunFailsSilently(exc) ==
    /\ app_pc' = "idle"
    /\ shown' = shown

\* The except clauses around the run: what was rendered stays, and an error
\* message is added.
RunFails(exc) ==
    /\ app_pc' = "idle"
    /\ shown' = shown \cup (IF exc = "ValueError" THEN {"validation_error"}
                            ELSE {"error_generating", "error_details"})

\* DocumentationCrew(...) returns or raises.
CrewConstructed(outcome) ==
    /\ AppFrame
    /\ app_pc = "constructing"
    /\ IF outcome.ok
       THEN /\ status_text' = "Generating documentation..."
            /\ progress' = Append(progress, 30)
            /\ app_pc' = "generating"
            /\ UNCHANGED shown
       ELSE /\ RunFails(outcome.exc)
            /\ UNCHANGED <<status_text, progress>>
    /\ raised_in' = IF outcome.ok THEN "none" ELSE "construct"
    /\ UNCHANGED <<project_input, enable_drive, enable_rag, output_file,
                   validation_feedback, agent_count, crew_args, documentation,
                   output_path, generate_button>>

\* generate_documentation returns or raises.
Generated(outcome) ==
    /\ AppFrame
    /\ app_pc = "generating"
    /\ IF outcome.ok
       THEN /\ documentation' = <<outcome.value>>
            /\ progress' = Append(progress, 80)
            /\ status_text' = "Saving documentation..."
            /\ app_pc' = "saving"
            /\ UNCHANGED shown
       ELSE /\ RunFails(outcome.exc)
            /\ UNCHANGED <<documentation, status_text, progress>>
    /\ raised_in' = IF outcome.ok THEN "none" ELSE "generate"
    /\ UNCHANGED <<project_input, enable_drive, enable_rag, output_file,
                   validation_feedback, agent_count, crew_args, output_path,
                   generate_button>>

\* save_documentation returns or raises; on return the bar is completed and
\* the result is rendered: the success message, then the preview and the
\* download tabs, whose documentation.get raises AttributeError when the
\* documentation is not a dict.
Saved(outcome) ==
    /\ AppFrame
    /\ app_pc = "saving"
    /\ IF outcome.ok
       THEN /\ output_path' = <<outcome.value>>
            /\ progress' = Append(progress, 100)
            /\ status_text' = "Documentation generated successfully!"
            /\ app_pc' = "idle"
            /\ IF "t" \notin DOMAIN documentation[1]
               THEN /\ shown' = {"success", "preview", "download", "saved_info"}
                    /\ raised_in' = "none"
               ELSE /\ shown' = {"success", "error_generating", "error_details"}
                    /\ raised_in' = "render"
       ELSE /\ RunFails(outcome.exc)
            /\ raised_in' = "save"
            /\ UNCHANGED <<output_path, status_text, progress>>
    /\ UNCHANGED <<project_input, enable_drive, enable_rag, output_file,
                   validation_feedback, agent_count, crew_args, documentation,
                   generate_button>>

\* A project path is the list of its segments, the empty list being the empty
\* text input; the outcomes are what the calls on the crew may produce.
AppNext ==
    \/ \E path \in {<<>>, <<"my-project">>, <<"gopay-ds", "my-project">>,
                    <<"gopay-ds", "Growth", "my-project">>, <<"gopay-ds", "">>},
          drive \in BOOLEAN, rag \in BOOLEAN, file \in {"", "documentation.md"} :
          ChangeSidebar(path, drive, rag, file)
    \/ ClickGenerate
    \/ \E outcome \in {Ok("crew"), Raise("ValueError", <<"config">>),
                       Raise("Exception", <<"init">>)} :
          CrewConstructed(outcome)
    \/ \E outcome \in {Ok([documentation |-> "# Docs", project |-> "p"]),
                       Ok([project |-> "p"]), Ok(PyList(<<>>)),
                       Raise("RuntimeError", <<"llm">>),
                       Raise("ValueError", <<"project">>)} :
          Generated(outcome)
    \/ \E outcome \in {Ok("documentation_p.md"), Raise("OSError", <<"disk">>)} :
          Saved(outcome)

\* ------------------------------------------------------------ the GitLab tool
\* Strings of this component are lists of tokens; a fetched text is the list
\* of its characters.

PyDict(d) == [t |-> "dict", v |-> d]

\* bool(x)
Truthy(x) ==
    CASE x.t = "none" -> FALSE
      [] x.t = "dict" -> DOMAIN x.v # {}
      [] x.t \in {"str", "list"} -> Len(x.v) > 0
      [] x.t = "int" -> x.v # 0
      [] OTHER -> TRUE

\* d.get(key, default) of a dict d.
DictGet(d, key, default) == IF key \in DOMAIN d.v THEN d.v[key] ELSE default

\* s[:n]
Take(s, n) == SubSeq(s, 1, IF Len(s) < n THEN Len(s) ELSE n)

\* urllib.parse.quote_plus of a path given by its segments: every slash
\* becomes %2F; the characters of the segments used here are left alone.
quote_plus(segments) ==
    [i \in 1..(2 * Len(segments) - 1) |->
        IF i % 2 = 1 THEN segments[(i + 1) \div 2] ELSE "%2F"]

\* A text of n characters.
Text(n) == [i \in 1..n |-> <<"a", "b", "c", "d", "e">>[(i % 5) + 1]]

\* An HTTP response: status_code, text and what response.json() gives.
Response(status_code, text, json) ==
    Ok([status_code |-> status_code, text |-> text, json |-> json])

NotJson == Raise("JSONDecodeError", <<"Expecting value: line 1 column 1 (char 0)">>)

ConnectionFailed == Raise("ConnectionError", <<"Connection refused">>)

\* What requests.get may give for the project.
InfoResponses ==
    {Response(200, <<"{...}">>,
              Ok(PyDict([id |-> PyInt(42), name |-> PyStr(<<"my-project">>),
                         default_branch |-> PyStr(<<"main">>),
                         topics |-> PyList(<<PyStr(<<"ml">>)>>),
                         license |-> PyDict([name |-> PyStr(<<"MIT License">>)])]))),
     Response(200, <<"{...}">>,
              Ok(PyDict([id |-> PyInt(42), license |-> PyNone]))),
     Response(200, <<"[]">>, Ok(PyList(<<>>))),
     Response(404, <<"404 Project Not Found">>, NotJson),
     ConnectionFailed}

\* What requests.get may give for the repository tree: 21 entries, of which
\* the first lacks path and mode; a body that is no list; an error; no answer.
TreeResponses ==
    {Response(200, <<"[...]">>,
              Ok(PyList([i \in 1..21 |->
                  IF i = 1
                  THEN PyDict([name |-> PyStr(<<"src">>), type |-> PyStr(<<"tree">>)])
                  ELSE PyDict([name |-> PyStr(<<"file", ToString(i)>>),
                               path |-> PyStr(<<"file", ToString(i)>>),
                               type |-> PyStr(<<"blob">>),
                               mode |-> PyStr(<<"100644">>),
                               id |-> PyStr(<<"f00">>)])]))),
     Response(200, <<"{...}">>, Ok(PyDict([message |-> PyStr(<<"moved">>)]))),
     Response(500, <<"Internal Server Error">>, NotJson),
     ConnectionFailed}

\* What requests.get may give for the commits.
CommitResponses ==
    {Response(200, <<"[...]">>,
              Ok(PyList(<<PyDict([id |-> PyStr(Text(9)), short_id |-> PyStr(Text(8)),
                                  title |-> PyStr(<<"Initial commit">>)]),
                          PyDict([title |-> PyStr(<<"Fix">>)])>>))),
     Response(200, <<"[...]">>, Ok(PyList(<<PyDict([id |-> PyNone])>>))),
     Response(403, <<"403 Forbidden">>, NotJson),
     Raise("Timeout", <<"Read timed out">>)}

\* What requests.get may give for a README file on a branch.
ReadmeResponses ==
    {Response(200, Text(n), NotJson) : n \in {3, 1000, 1001, 1200}}
        \cup {Response(404, <<"404 File Not Found">>, NotJson),
              Response(500, <<"Internal Server Error">>, NotJson),
              ConnectionFailed}

\* {"error": message}
ErrorDict(msg) == PyDict([error |-> PyStr(msg)])

\* _get_project_info once requests.get gave resp: without a token no request
\* is made; a status other than 200 and what the try block raises become an
\* error dictionary.
_get_project_info(token, resp) ==
    LET shaped ==
         LET data == resp.value.json
         IN  IF ~data.ok THEN data
             ELSE IF data.value.t # "dict"
             THEN Raise("AttributeError", <<"object has no attribute 'get'">>)
             ELSE LET license == DictGet(data.value, "license", PyNone)
                  IN  IF Truthy(license) /\ license.t # "dict"
                      THEN Raise("AttributeError", <<"object has no attribute 'get'">>)
                      ELSE Ok(PyDict([k \in
                              {"id", "name", "path", "path_with_namespace",
                               "description", "default_branch", "visibility",
                               "star_count", "forks_count", "open_issues_count",
                               "topics", "created_at", "last_activity_at",
                               "web_url", "readme_url", "license"} |->
                              CASE k = "topics" ->
                                     DictGet(data.value, "topics", PyList(<<>>))
                                [] k = "license" ->
                                     IF Truthy(license)
                                     THEN DictGet(license, "name", PyNone)
                                     ELSE PyNone
                                [] OTHER -> DictGet(data.value, k, PyNone)]))
        r == IF ~resp.ok THEN resp
             ELSE IF resp.value.status_code = 200 THEN shaped
             ELSE Ok(ErrorDict(<<"Failed to fetch project info: ",
                                 ToString(resp.value.status_code), " - ">>
                               \o resp.value.text))
    IN  IF token = "" THEN Ok(ErrorDict(<<"GITLAB_TOKEN not set in environment">>))
        ELSE IF r.ok THEN r ELSE Ok(ErrorDict(r.msg))

\* The try block of _get_file_structure once requests.get gave resp.
FileStructureBody(resp) ==
    IF ~resp.ok THEN resp
    ELSE IF resp.value.status_code = 200
    THEN LET data == resp.value.json
         IN  IF ~data.ok THEN data
             ELSE IF data.value.t # "list"
             THEN Raise("TypeError", <<"unhashable type: 'slice'">>)
             ELSE LET items == Take(data.value.v, 20)
                  IN  IF \E i \in 1..Len(items) : items[i].t # "dict"
                      THEN Raise("AttributeError", <<"object has no attribute 'get'">>)
                      ELSE Ok(PyDict([files |-> PyList(
                              [i \in 1..Len(items) |->
                                  PyDict([k \in {"name", "path", "type", "mode"} |->
                                             DictGet(items[i], k, PyNone)])])]))
    ELSE Ok(ErrorDict(<<"Failed to fetch file structure: ",
                        ToString(resp.value.status_code)>>))

\* A _get_file_structure without its except clause.
_get_file_structureUncaught(resp) == FileStructureBody(resp)

\* _get_file_structure
_get_file_structure(resp) ==
    LET r == FileStructureBody(resp)
    IN  IF r.ok THEN r ELSE Ok(ErrorDict(r.msg))

\* _get_recent_commits once requests.get gave resp: a status other than 200
\* and what the try block raises become a list of one error dictionary.
_get_recent_commits(resp) ==
    LET shaped ==
         LET data == resp.value.json
         IN  IF ~data.ok THEN data
             ELSE IF data.value.t # "list"
                     \/ \E i \in 1..Len(data.value.v) : data.value.v[i].t # "dict"
             THEN Raise("AttributeError", <<"object has no attribute 'get'">>)
             ELSE IF \E i \in 1..Len(data.value.v) :
                        DictGet(data.value.v[i], "id", PyStr(<<>>)).t # "str"
             THEN Raise("TypeError", <<"object is not subscriptable">>)
             ELSE Ok(PyList(
                     [i \in 1..Len(data.value.v) |->
                         PyDict([k \in {"id", "short_id", "title", "message",
                                        "author_name", "authored_date",
                                        "web_url"} |->
                            IF k = "id"
                            THEN PyStr(Take(DictGet(data.value.v[i], "id",
                                                    PyStr(<<>>)).v, 7))
                            ELSE DictGet(data.value.v[i], k, PyStr(<<>>))])]))
        r == IF ~resp.ok THEN resp
             ELSE IF resp.value.status_code = 200 THEN shaped
             ELSE Ok(PyList(<<ErrorDict(<<"Failed to fetch commits: ",
                                          ToString(resp.value.status_code)>>)>>))
    IN  IF r.ok THEN r ELSE Ok(PyList(<<ErrorDict(r.msg)>>))

readme_filenames == <<"README.md", "README", "readme.md", "Readme.md">>

\* A limit that also marks a text of exactly 1000 characters as cut.
TruncateEager(text) ==
    Take(text, 1000) \o (IF Len(text) >= 1000 THEN <<".", ".", ".">> ELSE <<>>)

\* response.text[:1000] + ("..." if len(response.text) > 1000 else "")
Truncate(text) ==
    Take(text, 1000) \o (IF Len(text) > 1000 THEN <<".", ".", ".">> ELSE <<>>)

NotFound == <<"README not found or inaccessible">>

\* The next request after one that did not end the loop: the next filename
\* on main, or the end of the loop.
NextFilename(at) ==
    IF at.i < Len(readme_filenames)
    THEN [done |-> FALSE, at |-> [i |-> at.i + 1, ref |-> "main"]]
    ELSE [done |-> TRUE, value |-> Ok(PyStr(NotFound))]

\* A loop that asks master after every failure on main.
ReadmeStepAlwaysMaster(at, resp) ==
    IF ~resp.ok THEN [done |-> TRUE, value |-> resp]
    ELSE IF resp.value.status_code = 200
    THEN [done |-> TRUE, value |-> Ok(PyStr(Truncate(resp.value.text)))]
    ELSE IF at.ref = "main"
    THEN [done |-> FALSE, at |-> [i |-> at.i, ref |-> "master"]]
    ELSE NextFilename(at)

\* The loop of _get_readme at the request for (filename, branch) `at`, once
\* requests.get gave resp: the value returned or raised, or the next request.
ReadmeStep(at, resp) ==
    IF ~resp.ok THEN [done |-> TRUE, value |-> resp]
    ELSE IF resp.value.status_code = 200
    THEN [done |-> TRUE, value |-> Ok(PyStr(Truncate(resp.value.text)))]
    ELSE IF at.ref = "main" /\ resp.value.status_code = 404
    THEN [done |-> FALSE, at |-> [i |-> at.i, ref |-> "master"]]
    ELSE NextFilename(at)

\* _get_readme: what its loop raises becomes a message.
_get_readme(r) ==
    IF r.ok THEN r ELSE Ok(PyStr(<<"Error fetching README: ">> \o r.msg))

\* json.dumps of a value made of dicts, lists, strings, numbers and None:
\* the JSON text of that value.
json_dumps(value) == [json |-> value]

\* A result dictionary that lacks the project key.
RunResultNoProject(project, info, files, recent, text) ==
    PyDict([info |-> info, file_structure |-> files,
            recent_commits |-> recent, readme |-> text])

\* The dictionary _run builds from what the four methods returned.
RunResult(project, info, files, recent, text) ==
    PyDict([project |-> PyStr(project), info |-> info,
            file_structure |-> files, recent_commits |-> recent,
            readme |-> text])

\* A GET of the GitLab API for the project, as requests.get is given it.
Request(project, tail, token, params) ==
    [url |-> <<"/api/v4/projects/">> \o quote_plus(project) \o tail,
     headers |-> ("PRIVATE-TOKEN" :> token),
     params |-> params]

GitLabInit ==
    /\ gitlab_token \in {"", "glpat-token"}
    /\ gpc = "idle"
    /\ gl_project = <<>>
    /\ gl_calls = <<>>
    /\ gl_log = <<>>
    /\ project_info = <<>>
    /\ file_structure = <<>>
    /\ commits = <<>>
    /\ readme = <<>>
    /\ readme_at = [i |-> 1, ref |-> "main"]
    /\ gl_ret = <<>>

\* _run(project) is called.
GitLabRun(p) ==
    /\ GitLabFrame
    /\ gpc \in {"idle", "done"}
    /\ gpc' = "info"
    /\ gl_project' = p
    /\ gl_calls' = <<>>
    /\ gl_log' = <<>>
    /\ project_info' = <<>>
    /\ file_structure' = <<>>
    /\ commits' = <<>>
    /\ readme' = <<>>
    /\ readme_at' = [i |-> 1, ref |-> "main"]
    /\ gl_ret' = <<>>
    /\ UNCHANGED gitlab_token

\* The except clause of _run.
RunCaught(r) ==
    /\ gl_ret' = <<json_dumps(ErrorDict(r.msg))>>
    /\ gpc' = "done"

\* A _get_project_info that makes its request whether there is a token or
\* not.
GetProjectInfoAlwaysRequests(resp) ==
    /\ GitLabFrame
    /\ gpc = "info"
    /\ gl_calls' = Append(gl_calls, "_get_project_info")
    /\ gl_log' = Append(gl_log,
                        [fetch |-> "info",
                         request |-> Request(gl_project, <<>>, gitlab_token, <<>>),
                         response |-> resp])
    /\ project_info' = <<_get_project_info("unchecked", resp).value>>
    /\ gpc' = "files"
    /\ UNCHANGED <<gitlab_token, gl_project, file_structure, commits, readme,
                   readme_at, gl_ret>>

\* _run calls _get_project_info, which makes its request when there is a
\* token.
GetProjectInfo(resp) ==
    /\ GitLabFrame
    /\ gpc = "info"
    /\ gl_calls' = Append(gl_calls, "_get_project_info")
    /\ gl_log' = IF gitlab_token = "" THEN gl_log
                 ELSE Append(gl_log,
                             [fetch |-> "info",
                              request |-> Request(gl_project, <<>>,
                                                  gitlab_token, <<>>),
                              response |-> resp])
    /\ LET r == _get_project_info(gitlab_token, resp)
       IN  IF r.ok
           THEN /\ project_info' = <<r.value>>
                /\ gpc' = "files"
                /\ UNCHANGED gl_ret
           ELSE /\ RunCaught(r)
                /\ UNCHANGED project_info
    /\ UNCHANGED <<gitlab_token, gl_project, file_structure, commits, readme,
                   readme_at>>

\* _run calls _get_file_structure, which makes its request.
GetFileStructure(resp) ==
    /\ GitLabFrame
    /\ gpc = "files"
    /\ gl_calls' = Append(gl_calls, "_get_file_structure")
    /\ gl_log' = Append(gl_log,
                        [fetch |-> "files",
                         request |-> Request(gl_project, <<"/repository/tree">>,
                                             gitlab_token,
                                             [path |-> "", per_page |-> 20]),
                         response |-> resp])
    /\ LET r == _get_file_structure(resp)
       IN  IF r.ok
           THEN /\ file_structure' = <<r.value>>
                /\ gpc' = "commits"
                /\ UNCHANGED gl_ret
           ELSE /\ RunCaught(r)
                /\ UNCHANGED file_structure
    /\ UNCHANGED <<gitlab_token, gl_project, project_info, commits, readme,
                   readme_at>>

\* _run calls _get_recent_commits(project, limit=5), which makes its request.
GetRecentCommits(resp) ==
    /\ GitLabFrame
    /\ gpc = "commits"
    /\ gl_calls' = Append(gl_calls, "_get_recent_commits")
    /\ gl_log' = Append(gl_log,
                        [fetch |-> "commits",
                         request |-> Request(gl_project,
                                             <<"/repository/commits">>,
                                             gitlab_token, [per_page |-> 5]),
                         response |-> resp])
    /\ LET r == _get_recent_commits(resp)
       IN  IF r.ok
           THEN /\ commits' = <<r.value>>
                /\ gpc' = "readme"
                /\ UNCHANGED gl_ret
           ELSE /\ RunCaught(r)
                /\ UNCHANGED commits
    /\ UNCHANGED <<gitlab_token, gl_project, project_info, file_structure,
                   readme, readme_at>>

\* _run calls _get_readme, or _get_readme makes the next request of its
\* loop; when the loop ends, _get_readme returns and _run dumps its result.
GetReadme(resp) ==
    /\ GitLabFrame
    /\ gpc = "readme"
    /\ gl_calls' = IF readme_at = [i |-> 1, ref |-> "main"]
                   THEN Append(gl_calls, "_get_readme") ELSE gl_calls
    /\ gl_log' = Append(gl_log,
                        [fetch |-> "readme",
                         request |-> Request(gl_project,
                                       <<"/repository/files/">>
                                          \o quote_plus(<<readme_filenames[readme_at.i]>>)
                                          \o <<"/raw">>,
                                       gitlab_token, [ref |-> readme_at.ref]),
                         response |-> resp])
    /\ LET step == ReadmeStep(readme_at, resp)
       IN  IF ~step.done
           THEN /\ readme_at' = step.at
                /\ UNCHANGED <<readme, gl_ret, gpc>>
           ELSE LET r == _get_readme(step.value)
                IN  /\ UNCHANGED readme_at
                    /\ IF r.ok
                       THEN /\ readme' = <<r.value>>
                            /\ gl_ret' = <<json_dumps(RunResult(
                                   gl_project, project_info[1], file_structure[1],
                                   commits[1], r.value))>>
                            /\ gpc' = "done"
                       ELSE /\ RunCaught(r)
                            /\ UNCHANGED readme
    /\ UNCHANGED <<gitlab_token, gl_project, project_info, file_structure,
                   commits>>

GitLabNext ==
    \/ \E p \in {<<"gopay-ds", "my-project">>, <<"42">>} : GitLabRun(p)
    \/ \E resp \in InfoResponses : GetProjectInfo(resp)
    \/ \E resp \in TreeResponses : GetFileStructure(resp)
    \/ \E resp \in CommitResponses : GetRecentCommits(resp)
    \/ \E resp \in ReadmeResponses : GetReadme(resp)

\* ------------------------------------------------- the chat-completion wrappers
\* GoToCustomLLM (CrewAI), CustomLLMWrapper and CustomGoToLLM (LangChain).

DefaultModel == "GoToCompany/Llama-Sahabat-AI-v2-70B-R"

DefaultBaseUrl == <<"https://litellm-staging.gopay.sh">>

\* str.rstrip('/') of a URL whose slashes at the end are tokens of their own.
RStripSlash(url) ==
    LET keep == {i \in 1..Len(url) : \E j \in i..Len(url) : url[j] # "/"}
    IN  SubSeq(url, 1, Cardinality(keep))

\* A check that only refuses a key that is None.
ApiKeyMissingNoneOnly(key) == key.t = "none"

\* not self.api_key
ApiKeyMissing(key) == ~Truthy(key)

\* CustomLLMWrapper.__init__
CustomLLMWrapperInit(base_url, api_key, env_key) ==
    LET key == IF Truthy(api_key) THEN api_key ELSE env_key
    IN  IF ApiKeyMissing(key)
        THEN Raise("ValueError", <<"API key is required. Set CUSTOM_LLM_API_KEY ",
                                   "environment variable or pass api_key parameter.">>)
        ELSE Ok([class |-> "CustomLLMWrapper", model |-> DefaultModel,
                 base_url |-> RStripSlash(base_url), api_key |-> key,
                 temperature |-> 6])

\* The messages and prompts the wrappers are called with.
UserMessage(content) ==
    PyDict([role |-> PyStr(<<"user">>), content |-> PyStr(content)])

MessageArgs ==
    {PyStr(<<"Summarise">>),
     PyList(<<PyDict([role |-> PyStr(<<"system">>), content |-> PyStr(<<"Be brief">>)]),
              UserMessage(<<"Summarise">>)>>)}

\* **kwargs of a call.
KwargsArgs ==
    {<<>>, [temperature |-> 2], [max_tokens |-> PyInt(50), stop |-> <<"END">>]}


\* The part a condition adds to a dictionary.
When(cond, part) == IF cond THEN part ELSE <<>>

\* The payload of GoToCustomLLM.call.
GoToPayload(self, messages, kwargs) ==
    When("stop" \in DOMAIN kwargs, [stop |-> kwargs["stop"]])
        @@ When("max_tokens" \in DOMAIN kwargs, [max_tokens |-> kwargs["max_tokens"]])
        @@ When(Truthy(self.max_tokens), [max_tokens |-> self.max_tokens])
        @@ [model |-> self.model,
            messages |-> IF messages.t = "str"
                         THEN PyList(<<UserMessage(messages.v)>>) ELSE messages,
            temperature |-> IF "temperature" \in DOMAIN kwargs
                            THEN kwargs["temperature"] ELSE self.temperature,
            stream |-> FALSE]

\* The payload of CustomLLMWrapper.call.
WrapperPayload(self, messages, temperature, max_tokens, stop, kwargs) ==
    kwargs
        @@ When(Truthy(stop), [stop |-> stop])
        @@ When(Truthy(max_tokens), [max_tokens |-> max_tokens])
        @@ [model |-> self.model, messages |-> messages,
            temperature |-> IF temperature.t # "none" THEN temperature.v
                            ELSE self.temperature,
            stream |-> FALSE]

\* The payload of CustomGoToLLM._call.
LangchainPayload(self, prompt, stop, kwargs) ==
    When(Truthy(stop), [stop |-> stop])
        @@ When(Truthy(self.max_tokens), [max_tokens |-> self.max_tokens])
        @@ [model |-> self.model,
            messages |-> PyList(<<UserMessage(prompt)>>),
            temperature |-> IF "temperature" \in DOMAIN kwargs
                            THEN kwargs["temperature"] ELSE self.temperature,
            stream |-> FALSE]

\* The headers of GoToCustomLLM.call and of CustomGoToLLM._call.
PlainHeaders == ("Content-Type" :> "application/json")

\* Headers that carry the key whatever it is.
WrapperHeadersAlways(api_key) ==
    ("Authorization" :> (<<"Bearer ">> \o api_key.v)) @@ PlainHeaders

\* The headers of CustomLLMWrapper.call.
WrapperHeaders(api_key) ==
    IF Truthy(api_key) /\ api_key.v \notin {<<"dummy">>, <<"not-needed">>, <<>>}
    THEN ("Authorization" :> (<<"Bearer ">> \o api_key.v)) @@ PlainHeaders
    ELSE PlainHeaders

\* requests.post(f"{base_url}/chat/completions", headers=, json=, timeout=)
PostRequest(base_url, headers, payload, timeout) ==
    [url |-> base_url \o <<"/chat/completions">>, headers |-> headers,
     json |-> payload, timeout |-> timeout]

\* What requests.post may give: an exception, an error status, a body that
\* is not JSON (response.json() then raises requests' JSONDecodeError, a
\* RequestException, or with requests before 2.27 the json module's, a
\* ValueError), and JSON bodies of several shapes.
LLMResponses ==
    LET Choice(content) ==
            PyDict([message |-> PyDict([role |-> PyStr(<<"assistant">>),
                                        content |-> content])])
    IN
    {Raise("Timeout", <<"Read timed out">>),
     ConnectionFailed,
     Response(500, <<"Internal Server Error">>, NotJson),
     Response(200, <<"<html>">>,
              Raise("requests.JSONDecodeError", <<"Expecting value">>)),
     Response(200, <<"<html>">>,
              Raise("json.JSONDecodeError", <<"Expecting value">>)),
     Response(200, <<"{...}">>,
              Ok(PyDict([choices |-> PyList(<<Choice(PyStr(<<"Hello">>)),
                                              Choice(PyStr(<<"Bye">>))>>)]))),
     Response(200, <<"{...}">>,
              Ok(PyDict([choices |-> PyList(<<Choice(PyNone)>>)]))),
     Response(200, <<"{...}">>,
              Ok(PyDict([error |-> PyStr(<<"model not found">>)]))),
     Response(200, <<"{...}">>, Ok(PyDict([choices |-> PyList(<<>>)]))),
     Response(200, <<"{...}">>, Ok(PyDict([choices |-> PyNone]))),
     Response(200, <<"{...}">>,
              Ok(PyDict([choices |-> PyList(<<PyDict([message |->
                                                         PyStr(<<"Hello">>)])>>)]))),
     Response(200, <<"[]">>, Ok(PyList(<<>>)))}

\* x[key] for a string key.
ItemByKey(x, key) ==
    CASE x.t = "dict" ->
            IF key \in DOMAIN x.v THEN Ok(x.v[key]) ELSE Raise("KeyError", <<key>>)
      [] x.t \in {"list", "str"} ->
            Raise("TypeError", <<"indices must be integers or slices, not str">>)
      [] OTHER -> Raise("TypeError", <<"object is not subscriptable">>)

\* x[i] for an index i >= 0.
ItemByIndex(x, i) ==
    CASE x.t \in {"list", "str"} ->
            IF i < Len(x.v) THEN Ok(x.v[i + 1])
            ELSE Raise("IndexError", <<"index out of range">>)
      [] x.t = "dict" -> Raise("KeyError", <<ToString(i)>>)
      [] OTHER -> Raise("TypeError", <<"object is not subscriptable">>)

\* result["choices"][0]["message"]["content"]
ExtractContent(result) ==
    LET choices == ItemByKey(result, "choices")
    IN  IF ~choices.ok THEN choices
        ELSE LET first == ItemByIndex(choices.value, 0)
             IN  IF ~first.ok THEN first
                 ELSE LET message == ItemByKey(first.value, "message")
                      IN  IF ~message.ok THEN message
                          ELSE ItemByKey(message.value, "content")

\* The try block of a call: post, raise_for_status, json, the content.
TryPost(resp) ==
    IF ~resp.ok THEN resp
    ELSE IF resp.value.status_code >= 400
    THEN Raise("HTTPError", <<ToString(resp.value.status_code), " Server Error">>)
    ELSE IF ~resp.value.json.ok THEN resp.value.json
    ELSE ExtractContent(resp.value.json.value)

\* The except clauses of the three calls: RequestException (for
\* GoToCustomLLM, Timeout first) and (KeyError, IndexError) become
\* RuntimeError; any other exception leaves the call as it is.
ExceptClauses(class, r) ==
    IF r.ok THEN r
    ELSE IF class = "GoToCustomLLM" /\ r.exc = "Timeout"
    THEN Raise("RuntimeError", <<"Request timed out after 300s">>)
    ELSE IF r.exc \in {"RequestException", "Timeout", "ConnectionError",
                       "HTTPError", "requests.JSONDecodeError"}
    THEN Raise("RuntimeError", <<"Error calling custom LLM endpoint: ">> \o r.msg)
    ELSE IF r.exc \in {"KeyError", "IndexError"}
    THEN Raise("RuntimeError", <<"Unexpected response format: ">> \o r.msg)
    ELSE r

LLMInit ==
    /\ llm_env \in {PyNone, PyStr(<<>>), PyStr(<<"dummy">>), PyStr(<<"sk-env">>)}
    /\ llm_obj = <<>>
    /\ llm_ctor = <<>>
    /\ llm_pc = "none"
    /\ llm_request = <<>>
    /\ llm_response = <<>>
    /\ llm_ret = <<>>
    /\ llm_raised = "None"

\* A constructor call ends: with the object, or with the exception it raised.
Constructed(class, args, r) ==
    /\ llm_ctor' = <<[class |-> class, args |-> args]>>
    /\ llm_obj' = IF r.ok THEN <<r.value>> ELSE <<>>
    /\ llm_pc' = IF r.ok THEN "ready" ELSE "none"
    /\ llm_raised' = IF r.ok THEN "None" ELSE r.exc
    /\ llm_request' = <<>>
    /\ llm_response' = <<>>
    /\ llm_ret' = <<>>
    /\ UNCHANGED llm_env

\* GoToCustomLLM(endpoint=, max_tokens=)
ConstructGoTo(endpoint, max_tokens) ==
    /\ LLMFrame
    /\ Constructed("GoToCustomLLM",
                   [endpoint |-> endpoint, max_tokens |-> max_tokens],
                   Ok([class |-> "GoToCustomLLM",
                       endpoint |-> RStripSlash(endpoint),
                       max_tokens |-> max_tokens]
                        @@ GoToCustomLLM(DefaultModel,
                                         "https://litellm-staging.gopay.sh", 6,
                                         DefaultSupportsTools)))

\* CustomLLMWrapper(base_url=, api_key=)
ConstructWrapper(base_url, api_key) ==
    /\ LLMFrame
    /\ Constructed("CustomLLMWrapper",
                   [base_url |-> base_url, api_key |-> api_key],
                   CustomLLMWrapperInit(base_url, api_key, llm_env))

\* CustomGoToLLM(max_tokens=)
ConstructLangchain(max_tokens) ==
    /\ LLMFrame
    /\ Constructed("CustomGoToLLM", [max_tokens |-> max_tokens],
                   Ok([class |-> "CustomGoToLLM", model |-> DefaultModel,
                       base_url |-> DefaultBaseUrl, temperature |-> 6,
                       max_tokens |-> max_tokens]))

\* A call posts request, gets resp and returns or raises.
Called(request, resp) ==
    /\ llm_request' = <<request>>
    /\ llm_response' = <<resp>>
    /\ LET r == ExceptClauses(llm_obj[1].class, TryPost(resp))
       IN  /\ llm_ret' = IF r.ok THEN <<r.value>> ELSE <<>>
           /\ llm_raised' = IF r.ok THEN "None" ELSE r.exc
    /\ llm_pc' = "done"
    /\ UNCHANGED <<llm_env, llm_obj, llm_ctor>>

\* GoToCustomLLM.call(messages, **kwargs)
GoToCall(messages, kwargs, resp) ==
    /\ LLMFrame
    /\ llm_pc \in {"ready", "done"}
    /\ llm_obj[1].class = "GoToCustomLLM"
    /\ Called(PostRequest(llm_obj[1].endpoint, PlainHeaders,
                          GoToPayload(llm_obj[1], messages, kwargs),
                          llm_obj[1].timeout),
              resp)

\* CustomLLMWrapper.call(messages, temperature, max_tokens, stop, **kwargs)
WrapperCall(messages, temperature, max_tokens, stop, kwargs, resp) ==
    /\ LLMFrame
    /\ llm_pc \in {"ready", "done"}
    /\ llm_obj[1].class = "CustomLLMWrapper"
    /\ Called(PostRequest(llm_obj[1].base_url, WrapperHeaders(llm_obj[1].api_key),
                          WrapperPayload(llm_obj[1], messages, temperature,
                                         max_tokens, stop, kwargs),
                          300),
              resp)

\* CustomGoToLLM._call(prompt, stop, **kwargs)
LangchainCall(prompt, stop, kwargs, resp) ==
    /\ LLMFrame
    /\ llm_pc \in {"ready", "done"}
    /\ llm_obj[1].class = "CustomGoToLLM"
    /\ Called(PostRequest(llm_obj[1].base_url, PlainHeaders,
                          LangchainPayload(llm_obj[1], prompt, stop, kwargs), 300),
              resp)

LLMNext ==
    \/ \E endpoint \in {DefaultBaseUrl, DefaultBaseUrl \o <<"/">>},
          max_tokens \in {PyNone, PyInt(100)} :
          ConstructGoTo(endpoint, max_tokens)
    \/ \E base_url \in {DefaultBaseUrl, DefaultBaseUrl \o <<"/">>},
          api_key \in {PyNone, PyStr(<<>>), PyStr(<<"dummy">>),
                       PyStr(<<"not-needed">>), PyStr(<<"sk-arg">>)} :
          ConstructWrapper(base_url, api_key)
    \/ \E max_tokens \in {PyNone, PyInt(100)} : ConstructLangchain(max_tokens)
    \/ \E messages \in MessageArgs, kwargs \in KwargsArgs, resp \in LLMResponses :
          GoToCall(messages, kwargs, resp)
    \/ \E messages \in MessageArgs,
          args \in {[temperature |-> PyNone, max_tokens |-> PyNone,
                     stop |-> PyNone, kwargs |-> <<>>],
                    [temperature |-> PyInt(0), max_tokens |-> PyInt(0),
                     stop |-> PyList(<<"END">>), kwargs |-> <<>>],
                    [temperature |-> PyNone, max_tokens |-> PyInt(50),
                     stop |-> PyList(<<>>), kwargs |-> [top_p |-> 9]]},
          resp \in LLMResponses :
          WrapperCall(messages, args.temperature, args.max_tokens, args.stop,
                      args.kwargs, resp)
    \/ \E prompt \in {<<"Summarise">>, <<>>},
          stop \in {PyNone, PyList(<<"END">>)}, kwargs \in KwargsArgs,
          resp \in LLMResponses :
          LangchainCall(prompt, stop, kwargs, resp)

\* ------------------------------------------------- properties of the RAG tool

\* The hit list the loop of the current _run iterates over.
CurrentHits ==
    IF search_results # <<>> /\ Len(search_results[1]) > 0
    THEN search_results[1][1]
    ELSE <<>>

Returned == pc = "done" /\ Len(ret) = 1

\* A hit with the fields the loop reads and a distance float() accepts.
WellFormed(hit) ==
    /\ {"distance", "entity"} \subseteq DOMAIN hit
    /\ "text" \in DOMAIN hit.entity
    /\ PyFloatOf(hit.distance).ok

Succeeded == Returned /\ "results" \in DOMAIN ret[1]

SuccessKeys == {"query", "collection", "results_count", "sources_found", "results"}

\* The endpoint answered 200 with a body that carries an embedding value.
CarriesEmbedding(resp) ==
    /\ resp.kind = "response"
    /\ resp.status = 200
    /\ "data" \in DOMAIN resp.body
    /\ Len(resp.body.data) > 0
    /\ "embedding" \in DOMAIN resp.body.data[1]
    /\ resp.body.data[1].embedding.t # "none"

EmbeddingFailed == embed_response # <<>> /\ ~CarriesEmbedding(embed_response[1])

SearchFailed == pc = "done" /\ search_limit # <<>> /\ search_results = <<>>

HitSource(hit) ==
    IF "source" \in DOMAIN hit.entity THEN hit.entity.source ELSE PyStr("N/A")

\* The answer of the index cannot be shaped into a success object.
Unshapeable ==
    /\ search_results # <<>>
    /\ \/ Len(search_results[1]) = 0
       \/ \E i \in 1..Len(CurrentHits) : ~WellFormed(CurrentHits[i])
       \/ \E i \in 1..Len(CurrentHits) : CurrentHits[i].entity.text.t = "bytes"
       \/ \E i, j \in 1..Len(CurrentHits) :
             /\ HitSource(CurrentHits[i]).t = "none"
             /\ HitSource(CurrentHits[j]).t # "none"

\* C1: once the tool is available, _run never raises: it always returns, and
\* when the embedding call, the vector search or the shaping of the hits
\* failed it returns an object with an "error" message and the original query.
C1_RunNeverRaises ==
    initialized =>
        /\ raised = "None"
        /\ (pc = "done" => Len(ret) = 1)
        /\ (pc = "done" /\ (EmbeddingFailed \/ SearchFailed \/ Unshapeable)) =>
              /\ Len(ret) = 1
              /\ {"error", "query"} \subseteq DOMAIN ret[1]
              /\ Len(ret[1].error) > 1
              /\ ret[1].query = query
              /\ ret[1].query = embed_request[1].input

C1_Witness ==
    /\ initialized
    /\ Returned
    /\ results # <<>>
    /\ \E i \in 1..Len(CurrentHits) : "text" \notin DOMAIN CurrentHits[i].entity
    /\ "error" \in DOMAIN ret[1]

\* C2: within one _run the stages are ordered: the search is issued only
\* after the embedding call returned a value (which is the search data), never
\* after a failed embedding call, and nothing is shaped before the search
\* returned.
C2_StagesInOrder ==
    /\ embed_response # <<>> => embed_request # <<>>
    /\ search_limit # <<>> =>
          /\ embed_response # <<>>
          /\ CarriesEmbedding(embed_response[1])
          /\ query_vector = <<embed_response[1].body.data[1].embedding>>
    /\ EmbeddingFailed => (search_limit = <<>> /\ search_results = <<>>)
    /\ search_results # <<>> => search_limit # <<>>
    /\ (results # <<>> \/ sources # {}) => search_results # <<>>
    /\ \A i \in 1..Len(trace) :
          /\ trace[i] = "search_request" =>
                \E j \in 1..(i - 1) : trace[j] = "embed_returned"
          /\ trace[i] = "embed_returned" =>
                \E j \in 1..(i - 1) : trace[j] = "embed_request"
          /\ trace[i] \in {"shaped", "returned"} =>
                \E j \in 1..(i - 1) : trace[j] = "search_returned"
          /\ trace[i] = "search_returned" =>
                \E j \in 1..(i - 1) : trace[j] = "search_request"

C2_Witness ==
    /\ pc = "done"
    /\ trace = <<"embed_request", "embed_returned", "search_request",
                 "search_returned", "shaped", "shaped", "returned">>

\* C3: a tool that is not available returns an error object and issues
\* neither an embedding request nor a vector search.
C3_UnavailableNoRequests ==
    ~initialized =>
        /\ pc \in {"idle", "done"}
        /\ embed_request = <<>>
        /\ embed_response = <<>>
        /\ search_limit = <<>>
        /\ search_results = <<>>
        /\ raised = "None"
        /\ pc = "done" =>
              /\ Len(ret) = 1
              /\ "error" \in DOMAIN ret[1]
              /\ DOMAIN ret[1] \cap SuccessKeys = {}

C3_Witness ==
    /\ ~initialized
    /\ db_path_exists
    /\ pc = "done"
    /\ ret = <<UnavailableOutput>>

\* C4: in a success object every entry of results carries a source,
\* results_count is the number of entries, and sources_found is the sorted,
\* duplicate-free list of exactly the sources that occur in results; a hit
\* without a source field is tagged "N/A".
C4_SummaryAgrees ==
    Succeeded =>
        LET o == ret[1]
        IN  /\ o.results_count = Len(o.results)
            /\ \A i \in 1..Len(o.results) : "source" \in DOMAIN o.results[i]
            /\ {o.sources_found[i] : i \in 1..Len(o.sources_found)}
                  = {o.results[i].source : i \in 1..Len(o.results)}
            /\ \A i, j \in 1..Len(o.sources_found) :
                  i < j => SourceRank(o.sources_found[i]) < SourceRank(o.sources_found[j])
            /\ Len(o.results) = Len(CurrentHits)
            /\ \A i \in 1..Len(CurrentHits) :
                  "source" \notin DOMAIN CurrentHits[i].entity =>
                      o.results[i].source = PyStr("N/A")

C4_Witness ==
    /\ Succeeded
    /\ ret[1].results_count = 3
    /\ Len(ret[1].sources_found) = 2
    /\ \E i \in 1..3 : "source" \notin DOMAIN CurrentHits[i].entity
    /\ ret[1].sources_found[1] = PyStr("N/A")

\* C5: the i-th entry of results is the i-th hit of the search: its text, its
\* distance as a float score and its source; no hit is dropped, duplicated or
\* reordered.
C5_RankedAsReturned ==
    Succeeded =>
        /\ Len(ret[1].results) = Len(CurrentHits)
        /\ \A i \in 1..Len(CurrentHits) :
              LET r == ret[1].results[i]
                  h == CurrentHits[i]
              IN  /\ r.text = h.entity.text
                  /\ r.score.t = "float"
                  /\ r.score.v = (IF h.distance.t = "int" THEN 100 * h.distance.v
                                  ELSE h.distance.v)
                  /\ r.source = HitSource(h)

C5_Witness ==
    /\ Succeeded
    /\ CurrentHits = <<HitGood1, HitNoSource, HitUpper>>
    /\ ret[1].results[2].score = PyFloat(100)

\* C6: the output is either an error object or a success object with the five
\* summary keys, never a mixture; when a hit cannot be shaped the output is
\* the error object and holds no results.
C6_AllOrNothing ==
    Returned =>
        /\ \/ DOMAIN ret[1] \in {{"error"}, {"error", "query"}}
           \/ DOMAIN ret[1] = SuccessKeys
        /\ (\E i \in 1..Len(CurrentHits) : ~WellFormed(CurrentHits[i])) =>
              /\ "error" \in DOMAIN ret[1]
              /\ "results" \notin DOMAIN ret[1]
              /\ "results_count" \notin DOMAIN ret[1]

C6_Witness ==
    /\ Returned
    /\ CurrentHits = <<HitGood1, HitGood2, HitNoText>>
    /\ Len(results) = 2
    /\ DOMAIN ret[1] = {"error", "query"}

\* C7: a success object holds at most top_k results, the search being
\* issued with limit = top_k.
C7_AtMostTopK ==
    /\ search_limit # <<>> => search_limit[1] = top_k
    /\ Succeeded => ret[1].results_count <= top_k

C7_Witness ==
    /\ Succeeded
    /\ top_k > 1
    /\ ret[1].results_count = top_k

vars == <<ragVars, crewVars, appVars, gitlabVars, llmVars, built>>

\* --------------------------------------------- properties of the crew and form

Range(s) == {s[i] : i \in 1..Len(s)}

\* The agents of crew c that are given a task of the kind.
AgentsOf(c, kind) ==
    {a \in Range(c.agents) :
        \E t \in Range(c.tasks) : t.kind = kind /\ t.agent = a.role}

EnabledSwitches ==
    {s \in {"google_drive", "rag"} :
        \/ s = "google_drive" /\ enable_drive
        \/ s = "rag" /\ enable_rag}

\* ------------------------------ the RAG tool's availability and its single run

\* C23: is_available() is true exactly when, at construction, the database
\* path existed and the client was created without an exception; wherever
\* is_available() is true the client handle is not None; and no step of _run
\* changes the availability or the client handle.
C23_AvailabilityFixedAtConstruction ==
    /\ [](is_available <=> (db_path_exists /\ client_created))
    /\ [](is_available => client # "None")
    /\ [][initialized' = initialized /\ client' = client]_vars

\* An available tool has answered a query and is still available, its client
\* in place.
C23_Witness ==
    /\ is_available
    /\ db_path_exists /\ client_created
    /\ client = "MilvusClient"
    /\ Returned
    /\ trace # <<"unavailable">>

\* How often a stage occurs in the trace of the current _run.
Count(stage) == Cardinality({i \in 1..Len(trace) : trace[i] = stage})

FailureStages == {"embed_failed", "search_failed", "shape_failed", "no_client"}

\* The loop over the hits as one function of the list: the entries in order,
\* or the exception of the first hit that cannot be shaped.
RECURSIVE ShapeAll(_)
ShapeAll(hits) ==
    IF hits = <<>> THEN Ok(<<>>)
    ELSE LET h == ShapeHit(Head(hits))
             rest == ShapeAll(Tail(hits))
         IN  IF ~h.ok THEN h
             ELSE IF ~rest.ok THEN rest
             ELSE Ok(<<h.value>> \o rest.value)

\* What _run returns for a query and the answer s of the index, as a
\* function of the two alone.
OutputAfterSearch(q, s) ==
    LET error(r) == [error |-> <<"Error searching knowledge base: ">> \o r.msg,
                     query |-> q]
    IN  IF ~s.ok THEN error(s)
        ELSE IF s.value = <<>> THEN error(Raise("IndexError", <<"list index out of range">>))
        ELSE LET shaped == ShapeAll(s.value[1])
             IN  IF ~shaped.ok THEN error(shaped)
                 ELSE LET srcs == Sorted({shaped.value[i].source : i \in 1..Len(shaped.value)})
                      IN  IF ~srcs.ok THEN error(srcs)
                          ELSE LET out == JsonDumps(SuccessOutput(q, shaped.value, srcs.value))
                               IN  IF ~out.ok THEN error(out) ELSE out.value

\* The value returned is the one the query, the answer of the embedding
\* endpoint and the answer of the index determine.
OutputDetermined ==
    pc = "done" =>
        /\ raised = "None"
        /\ IF ~is_available THEN ret = <<UnavailableOutput>> /\ embed_request = <<>>
           ELSE /\ embed_request = <<EmbeddingPayload(query)>>
                /\ embed_response # <<>>
                /\ LET emb == GenerateEmbedding(embed_response[1])
                   IN  IF ~emb.ok
                       THEN /\ search_limit = <<>>
                            /\ ret = <<[error |-> <<"Error searching knowledge base: ">> \o emb.msg,
                                        query |-> query]>>
                       ELSE IF search_results # <<>>
                       THEN ret = <<OutputAfterSearch(query, Ok(search_results[1]))>>
                       ELSE \E s \in SearchResponses(emb.value, top_k) :
                               ~s.ok /\ ret = <<OutputAfterSearch(query, s)>>

\* One request to the embedding endpoint and one search at most, and nothing
\* after a failure but the return.
OneRequestEach ==
    /\ Count("embed_request") <= 1
    /\ Count("search_request") <= 1
    /\ Len(embed_request) <= 1 /\ Len(search_limit) <= 1
    /\ \A i \in 1..Len(trace) :
          trace[i] \in FailureStages => i = Len(trace) /\ pc = "done"

\* C24: one _run makes at most one request to the embedding endpoint and at
\* most one vector search and then returns: a failure is not retried, and no
\* state passes from one query to the next, so the output depends only on the
\* query and on the answers of the embedding endpoint and of the index.
C24_OneShotRun ==
    /\ []OneRequestEach
    /\ []OutputDetermined
    /\ (pc \in {"embedding", "searching", "shaping"}) ~> (pc = "done")

\* A _run made its one embedding request and its one search and returned the
\* hit the index gave for the query.
C24_Witness ==
    /\ Succeeded
    /\ Count("embed_request") = 1 /\ Count("search_request") = 1
    /\ query = "Tell me about DGE"
    /\ ret[1].results_count = 1
    /\ ret[1] = OutputAfterSearch(query, Ok(search_results[1]))

\* C8 as stated: a generation run drives two or three agents whatever the
\* switches are.
C8_TwoOrThreeAgents == crew_args # <<>> => agent_count \in {2, 3}

\* C8, amended: the number of agents is two plus one for each enabled switch,
\* so it is 2, 3 or 4, and 4 exactly when both switches are on; the crew of
\* the run is built with the same switches.
C8_TwoPlusSwitches ==
    /\ agent_count = 2 + Cardinality(EnabledSwitches)
    /\ agent_count \in 2..4
    /\ agent_count = 4 <=> (enable_drive /\ enable_rag)
    /\ crew_args # <<>> =>
          crew_args[1] = [enable_google_drive |-> enable_drive, enable_rag |-> enable_rag]

C8_Witness ==
    /\ app_pc = "generating"
    /\ crew_args = <<[enable_google_drive |-> TRUE, enable_rag |-> TRUE]>>
    /\ agent_count = 4

\* C9: the tasks run in a fixed sequence: the fetch task first, the writing
\* task after it and last, whatever the project and the agents' outputs.
C9_FixedSequence ==
    /\ crew # <<>> =>
          /\ crew[1].process = "sequential"
          /\ Len(crew[1].tasks) = 2
          /\ crew[1].tasks[1].kind = "fetch"
          /\ crew[1].tasks[2].kind = "write"
    /\ Len(executed) <= 2
    /\ \A i \in 1..Len(executed) : executed[i].task = <<"fetch", "write">>[i]
    /\ doc # <<>> => (Len(executed) = 2 /\ executed[2].task = "write")

C9_Witness ==
    /\ cpc = "done"
    /\ doc # <<>>
    /\ crew_project = "gopay-ds/other"
    /\ executed[1].output = <<JObj>>
    /\ executed[2].output = <<Prose>>

\* C10: the writer's LLM has another model than the fetching agent's LLM, the
\* writer has no tools, and only the fetching agent's LLM supports tool calls.
C10_WriterUsesOtherModel ==
    /\ doc_crew.gpt_oss_llm.model # doc_crew.sahabat_llm.model
    /\ \A llm \in {doc_crew.gpt_oss_llm, doc_crew.sahabat_llm} :
          factory_create_documentation_writer_agent(llm).tools = <<>>
    /\ crew # <<>> =>
          /\ Len(crew[1].agents) = 2
          /\ AgentsOf(crew[1], "write") # {}
          /\ AgentsOf(crew[1], "fetch") # {}
          /\ \A w \in AgentsOf(crew[1], "write") :
                /\ w.tools = <<>>
                /\ ~supports_function_calling(w.llm)
                /\ \A f \in AgentsOf(crew[1], "fetch") : w.llm.model # f.llm.model
          /\ \A f \in AgentsOf(crew[1], "fetch") :
                /\ f.tools = <<GitLabToolName>>
                /\ supports_function_calling(f.llm)

C10_Witness ==
    /\ cpc = "kickoff"
    /\ Len(executed) = 1
    /\ executed[1].agent = "GitLab Data Analyzer"

\* A value that json.loads or the fallback branch returned is a Python dict.
IsDictionary(v) ==
    IF "json" \in DOMAIN v THEN v.json = "object"
    ELSE DOMAIN v = {"project", "documentation", "format", "note"}

\* C12: generate_documentation returns a dictionary for every final output of
\* the crew: whenever the crew has run to its end, nothing was raised and the
\* value returned is a dictionary, the parsed JSON document or the text
\* fallback.
C12_AlwaysADictionary ==
    (cpc = "done" /\ Len(executed) = 2) =>
        /\ craised = "None"
        /\ doc # <<>>
        /\ IsDictionary(doc[1])

\* The final output of a crew that ran to its end.
CrewOutput == executed[Len(executed)].output

\* The output begins, blanks aside, with a code fence.
Fenced(s) == \E i \in 1..Len(s) : s[i] = Fence /\ \A j \in 1..(i - 1) : IsSpace(s[j])

\* The tokens after the first newline and before the last fence, the blanks at
\* both ends removed; nothing when the last fence comes first.
BetweenNewlineAndFence(s) ==
    LET first == CHOOSE i \in 1..Len(s) : s[i] = NL /\ \A j \in 1..(i - 1) : s[j] # NL
        last == CHOOSE i \in 1..Len(s) : s[i] = Fence /\ \A j \in (i + 1)..Len(s) : s[j] # Fence
        part == [k \in 1..(IF last > first THEN last - first - 1 ELSE 0) |-> s[first + k]]
        kept == {k \in DOMAIN part : /\ \E j \in 1..k : ~IsSpace(part[j])
                                     /\ \E j \in k..Len(part) : ~IsSpace(part[j])}
    IN  [k \in 1..Cardinality(kept) |-> part[k + Len(part) - Len(LStrip(part))]]

\* The text handed to json.loads is one JSON value.
IsJson(s) == Strip(s) \in {<<JObj>>, <<JArr>>}

\* The dictionary of the except branch for an output and a project.
IsFallback(v, output, project) ==
    /\ DOMAIN v = {"project", "documentation", "format", "note"}
    /\ v.format = "text"
    /\ v.project = project
    /\ v.documentation = output

C22_WitnessParsed ==
    /\ cpc = "done"
    /\ Len(executed) = 2
    /\ CrewOutput = <<Fence, Lang, NL, JObj, NL, Fence>>
    /\ doc[1] = [json |-> "object", text |-> JObj]

\* C13: a generation run exists only for a press of the generate button with a
\* project path that is not empty and passes validate_gitlab_project: for an
\* empty or invalid path no crew is constructed, the progress bar is not
\* started, no documentation is generated and no file is saved.
C13_RunOnlyForValidProject ==
    (\/ app_pc # "idle"
     \/ crew_args # <<>>
     \/ progress # <<>>
     \/ documentation # <<>>
     \/ output_path # <<>>) =>
        /\ generate_button
        /\ project_input # <<>>
        /\ validate_gitlab_project(project_input)

\* The button was pressed with an ill-formed path and only the error is shown.
C13_Witness ==
    /\ generate_button
    /\ project_input # <<>>
    /\ ~validate_gitlab_project(project_input)
    /\ shown = {"error_invalid_format"}
    /\ crew_args = <<>>

\* The values the progress bar takes in a run that completes.
ProgressSteps == <<0, 10, 30, 80, 100>>

IsPrefix(s, t) == Len(s) <= Len(t) /\ \A i \in 1..Len(s) : s[i] = t[i]

\* C14: a run initialises the crew, generates, saves and renders in this
\* order, with the progress bar at 0, 10, 30, 80, 100; save_documentation is
\* called only after generate_documentation returned; when the construction,
\* the generation or the saving raises, the bar never reaches 100, neither the
\* success message nor the download is shown, and an error message is shown.
C14_StepsInOrder ==
    /\ IsPrefix(progress, ProgressSteps)
    /\ app_pc = "constructing" => progress = <<0, 10>> /\ documentation = <<>>
    /\ app_pc = "generating" =>
          progress = <<0, 10, 30>> /\ documentation = <<>> /\ output_path = <<>>
    /\ app_pc = "saving" =>
          progress = <<0, 10, 30, 80>> /\ documentation # <<>> /\ output_path = <<>>
    /\ output_path # <<>> => documentation # <<>> /\ crew_args # <<>>
    /\ 100 \in Range(progress) <=> output_path # <<>>
    /\ shown \cap {"success", "preview", "download"} # {} => output_path # <<>>
    /\ raised_in \in {"construct", "generate", "save"} =>
          /\ app_pc = "idle"
          /\ 100 \notin Range(progress)
          /\ shown \cap {"success", "download"} = {}
          /\ shown \cap {"validation_error", "error_generating"} # {}

\* save_documentation raised after the documentation was generated.
C14_Witness ==
    /\ raised_in = "save"
    /\ progress = <<0, 10, 30, 80>>
    /\ documentation # <<>>
    /\ "error_generating" \in shown

\* ------------------------------------------- properties of the GitLab tool

FetchOrder ==
    <<"_get_project_info", "_get_file_structure", "_get_recent_commits",
      "_get_readme">>

ResultKeys == {"project", "info", "file_structure", "recent_commits", "readme"}

GitLabReturned == gpc = "done" /\ Len(gl_ret) = 1

\* The requests of the fetch, in order, with their answers.
LogOf(fetch) == SelectSeq(gl_log, LAMBDA e : e.fetch = fetch)

Answered(e, status_code) ==
    e.response.ok /\ e.response.value.status_code = status_code

\* The request was answered with an HTTP error or requests.get raised.
RequestFailed(e) == ~Answered(e, 200)

\* {"error": ...}
IsErrorDict(v) == v.t = "dict" /\ DOMAIN v.v = {"error"}

\* C11: _run ends by returning the JSON text of an object and never by
\* raising; it calls the four fetches in the order project metadata, file
\* tree, recent commits, README; the object has exactly the keys project,
\* info, file_structure, recent_commits, readme after the four fetches, and
\* the single key error otherwise.
C11_RunReturnsJson ==
    /\ IsPrefix(gl_calls, FetchOrder)
    /\ gpc = "done" =>
          /\ Len(gl_ret) = 1
          /\ gl_ret[1].json.t = "dict"
          /\ \/ /\ DOMAIN gl_ret[1].json.v = ResultKeys
                /\ gl_calls = FetchOrder
             \/ DOMAIN gl_ret[1].json.v = {"error"}
    /\ gpc \notin {"idle", "done"} => gl_ret = <<>>
    /\ gpc = "files" => gl_calls = SubSeq(FetchOrder, 1, 1)
    /\ gpc = "commits" => gl_calls = SubSeq(FetchOrder, 1, 2)

\* A run in which every fetch succeeded.
C11_Witness ==
    /\ GitLabReturned
    /\ DOMAIN gl_ret[1].json.v = ResultKeys
    /\ \A i \in 1..Len(gl_log) : Answered(gl_log[i], 200)
    /\ Len(gl_log) = 4
    /\ ~IsErrorDict(gl_ret[1].json.v.info)

\* The filename and the branch a README request asks for.
FilenameOf(e) == e.request.url[Len(e.request.url) - 1]

FilenameIndex(e) ==
    CHOOSE i \in 1..Len(readme_filenames) : readme_filenames[i] = FilenameOf(e)

C19_ReadmeLimit ==
    LET L == LogOf("readme")
    IN  (gpc = "done" /\ Len(L) > 0 /\ Answered(L[Len(L)], 200)) =>
            LET text == L[Len(L)].response.value.text
                value == readme[1].v
            IN  /\ Len(text) > 1000 =>
                      /\ Len(value) = 1003
                      /\ SubSeq(value, 1, 1000) = SubSeq(text, 1, 1000)
                      /\ SubSeq(value, 1001, 1003) = <<".", ".", ".">>
                /\ Len(text) <= 1000 => value = text
                /\ gl_ret[1].json.v.readme.v = value

\* A README of exactly 1000 characters was fetched and returned.
C19_Witness ==
    LET L == LogOf("readme")
    IN  /\ gpc = "done"
        /\ Len(L) > 0
        /\ Answered(L[Len(L)], 200)
        /\ Len(L[Len(L)].response.value.text) = 1000
        /\ Len(readme[1].v) = 1000

\* The error value of a fetch's field.
IsErrorValue(fetch, v) ==
    CASE fetch \in {"info", "files"} -> IsErrorDict(v)
      [] fetch = "commits" ->
            v.t = "list" /\ Len(v.v) = 1 /\ IsErrorDict(v.v[1])
      [] fetch = "readme" ->
            v.v = NotFound \/ Take(v.v, 1) = <<"Error fetching README: ">>

FieldOf(fetch) ==
    CASE fetch = "info" -> "info"
      [] fetch = "files" -> "file_structure"
      [] fetch = "commits" -> "recent_commits"
      [] fetch = "readme" -> "readme"

\* The fetch got an HTTP error or an exception instead of its data.
FetchFailed(fetch) ==
    LET L == LogOf(fetch)
    IN  Len(L) > 0 /\ RequestFailed(L[Len(L)])

\* The fetch was answered with the data it asks for.
GotData(fetch) ==
    LET L == LogOf(fetch)
    IN  /\ Len(L) > 0
        /\ Answered(L[Len(L)], 200)
        /\ fetch # "readme" =>
              /\ L[Len(L)].response.value.json.ok
              /\ L[Len(L)].response.value.json.value.t =
                    (IF fetch = "info" THEN "dict" ELSE "list")

\* C20: the four fetches fail independently: when a fetch got an HTTP error
\* or an exception, _run still calls the fetches after it and returns an
\* object with all five keys, in which the field of that fetch holds an error
\* value; the field of a fetch that got its data holds no error value.
C20_FetchesFailAlone ==
    /\ gpc = "done" =>
          /\ Len(gl_ret) = 1
          /\ DOMAIN gl_ret[1].json.v = ResultKeys
          /\ gl_calls = FetchOrder
          /\ \A fetch \in {"info", "files", "commits", "readme"} :
                /\ FetchFailed(fetch) =>
                      IsErrorValue(fetch, gl_ret[1].json.v[FieldOf(fetch)])
                /\ (GotData(fetch) /\ fetch # "commits") =>
                      ~IsErrorValue(fetch, gl_ret[1].json.v[FieldOf(fetch)])
    /\ \A fetch \in {"info", "files", "commits"} :
          FetchFailed(fetch) => gpc # "idle" /\ (gl_ret # <<>> => gpc = "done")

\* C21: when GITLAB_TOKEN is unset or empty, _get_project_info makes no HTTP
\* request and returns its error value, and the file-tree, commits and README
\* fetches of the same _run still make their requests, each with an empty
\* PRIVATE-TOKEN header.
C21_NoTokenNoInfoRequest ==
    gitlab_token = "" =>
        /\ LogOf("info") = <<>>
        /\ project_info # <<>> =>
              project_info[1] = ErrorDict(<<"GITLAB_TOKEN not set in environment">>)
        /\ \A k \in 1..Len(gl_log) :
              /\ DOMAIN gl_log[k].request.headers = {"PRIVATE-TOKEN"}
              /\ gl_log[k].request.headers["PRIVATE-TOKEN"] = ""
        /\ gpc \in {"commits", "readme", "done"} => Len(LogOf("files")) = 1
        /\ gpc \in {"readme", "done"} => Len(LogOf("commits")) = 1
        /\ gpc = "done" =>
              /\ Len(LogOf("readme")) >= 1
              /\ gl_calls = FetchOrder
              /\ gl_ret[1].json.v.info = project_info[1]

\* A run without a token ended: no project request, and the tree, the commits
\* and a README were fetched with the empty token.
C21_Witness ==
    /\ gitlab_token = ""
    /\ gpc = "done"
    /\ LogOf("info") = <<>>
    /\ IsErrorDict(project_info[1])
    /\ \A k \in 1..Len(gl_log) : Answered(gl_log[k], 200)
    /\ Len(gl_log) = 3
    /\ ~IsErrorDict(gl_ret[1].json.v.file_structure)

\* The tree request failed, the other fetches got their data.
C20_Witness ==
    /\ gpc = "done"
    /\ FetchFailed("files")
    /\ ~FetchFailed("info") /\ ~FetchFailed("commits") /\ ~FetchFailed("readme")
    /\ Len(LogOf("info")) = 1
    /\ IsErrorDict(gl_ret[1].json.v.file_structure)
    /\ ~IsErrorDict(gl_ret[1].json.v.info)

\* ---------------------------------- properties of the chat-completion wrappers

LLMCalled == llm_pc = "done"

\* requests.post raised, or answered with a status of 400 or more.
RequestFailure(resp) == ~resp.ok \/ resp.value.status_code >= 400

\* The body of an answered request has choices[0].message.content.
HasFirstContent(resp) ==
    /\ resp.value.json.ok
    /\ LET body == resp.value.json.value
       IN  /\ body.t = "dict" /\ "choices" \in DOMAIN body.v
           /\ body.v.choices.t = "list" /\ Len(body.v.choices.v) > 0
           /\ body.v.choices.v[1].t = "dict"
           /\ "message" \in DOMAIN body.v.choices.v[1].v
           /\ body.v.choices.v[1].v.message.t = "dict"
           /\ "content" \in DOMAIN body.v.choices.v[1].v.message.v

\* C15: a call of each of the three wrappers either returns the content of
\* the first choice or raises RuntimeError: after a request failure (timeout,
\* connection error, status that is not 2xx) and after a response body without
\* choices[0].message.content, RuntimeError is raised and nothing is returned;
\* no exception of another class leaves the call.
C15_ContentOrRuntimeError ==
    LLMCalled =>
        LET resp == llm_response[1]
        IN  /\ llm_raised \in {"None", "RuntimeError"}
            /\ IF RequestFailure(resp) \/ ~HasFirstContent(resp)
               THEN llm_raised = "RuntimeError" /\ llm_ret = <<>>
               ELSE /\ llm_raised = "None"
                    /\ llm_ret = <<resp.value.json.value.v.choices.v[1].v.message.v.content>>

\* C16: CustomLLMWrapper cannot be constructed without an API key: without an
\* api_key argument and with CUSTOM_LLM_API_KEY unset or empty the constructor
\* raises ValueError and there is no object; every wrapper that was
\* constructed has an api_key that is a string and not empty.
C16_ApiKeyRequired ==
    (llm_ctor # <<>> /\ llm_ctor[1].class = "CustomLLMWrapper") =>
        /\ (llm_ctor[1].args.api_key = PyNone
              /\ llm_env \in {PyNone, PyStr(<<>>)}) =>
               /\ llm_obj = <<>>
               /\ llm_pc = "none"
               /\ llm_raised = "ValueError"
        /\ llm_obj # <<>> =>
               /\ llm_obj[1].api_key.t = "str"
               /\ llm_obj[1].api_key.v # <<>>

\* The constructor was called without a key while the variable was empty.
C16_Witness ==
    /\ llm_ctor # <<>>
    /\ llm_ctor[1].class = "CustomLLMWrapper"
    /\ llm_ctor[1].args.api_key = PyNone
    /\ llm_env = PyStr(<<>>)
    /\ llm_raised = "ValueError"
    /\ llm_obj = <<>>

\* C17: the requests of GoToCustomLLM.call and of CustomGoToLLM._call carry
\* the Content-Type header and no other; the request of CustomLLMWrapper.call
\* carries Content-Type and, exactly when the api_key is none of "dummy",
\* "not-needed" and "", an Authorization header with the bearer key.
C17_AuthorizationHeader ==
    llm_request # <<>> =>
        LET headers == llm_request[1].headers
            self == llm_obj[1]
        IN  /\ "Content-Type" \in DOMAIN headers
            /\ headers["Content-Type"] = "application/json"
            /\ self.class \in {"GoToCustomLLM", "CustomGoToLLM"} =>
                  DOMAIN headers = {"Content-Type"}
            /\ self.class = "CustomLLMWrapper" =>
                  /\ DOMAIN headers \subseteq {"Content-Type", "Authorization"}
                  /\ "Authorization" \in DOMAIN headers <=>
                        /\ self.api_key.v # <<"dummy">>
                        /\ self.api_key.v # <<"not-needed">>
                        /\ self.api_key.v # <<>>
                  /\ "Authorization" \in DOMAIN headers =>
                        headers["Authorization"] = <<"Bearer ">> \o self.api_key.v

\* A wrapper with a placeholder key made a request without Authorization.
C17_Witness ==
    /\ llm_request # <<>>
    /\ llm_obj[1].class = "CustomLLMWrapper"
    /\ llm_obj[1].api_key = PyStr(<<"not-needed">>)
    /\ DOMAIN llm_request[1].headers = {"Content-Type"}

\* --------------------------------------------- properties of the agent factory

\* The class of the tool each analyzer role works with.
ToolClassOf(role) ==
    IF role = "AgentRole.GITLAB_ANALYZER" THEN "GitLabMCPTool"
    ELSE IF role = "AgentRole.DRIVE_ANALYZER" THEN "GoogleDriveMCPTool"
    ELSE "RAGMilvusTool"

AnalyzerRoles ==
    {"AgentRole.GITLAB_ANALYZER", "AgentRole.DRIVE_ANALYZER", "AgentRole.RAG_ANALYZER"}

\* C25: each analyzer agent the factory builds has exactly one tool, the one
\* of its own role (GitLab, Google Drive or knowledge-base search), so that
\* the knowledge-base agent never has the GitLab tool; the writer agent has
\* no tools; and delegation is disabled for every agent.
C25_OneToolPerAnalyzer ==
    \A i \in 1..Len(built) :
        LET agent == built[i]
        IN  /\ agent.allow_delegation = FALSE
            /\ agent.role \in AnalyzerRoles \cup {"AgentRole.DOCUMENTATION_WRITER"}
            /\ agent.role \in AnalyzerRoles =>
                  /\ Len(agent.tools) = 1
                  /\ agent.tools[1].class = ToolClassOf(agent.role)
            /\ agent.role = "AgentRole.RAG_ANALYZER" =>
                  \A k \in 1..Len(agent.tools) : agent.tools[k].class # "GitLabMCPTool"
            /\ agent.role = "AgentRole.DOCUMENTATION_WRITER" => agent.tools = <<>>

\* The four agents of a full crew were built, the knowledge-base agent with
\* the knowledge-base search as its one tool.
C25_Witness ==
    /\ Len(built) = 4
    /\ {built[i].role : i \in 1..4} = AnalyzerRoles \cup {"AgentRole.DOCUMENTATION_WRITER"}
    /\ built[3].role = "AgentRole.RAG_ANALYZER"
    /\ built[3].tools = <<[class |-> "RAGMilvusTool",
                           name |-> "Internal Knowledge Base Search"]>>
    /\ built[4].tools = <<>>

\* A tool that is constructed and never used.
RagParked == RagInit /\ ~db_path_exists /\ ~client_created /\ top_k = 1

\* A GitLab tool that is never used, in an environment without a token.
GitLabParked == GitLabInit /\ gitlab_token = ""

\* No wrapper constructed, in an environment without CUSTOM_LLM_API_KEY.
LLMParked == LLMInit /\ llm_env = PyNone

\* The RAG tool on its own.
Init == RagInit /\ CrewInit /\ AppInit /\ GitLabParked /\ LLMParked /\ FactoryInit

Next == RagNext

Spec == Init /\ [][Next]_vars

\* The embedding request has a timeout, the search is a call into the local
\* index and the loop runs over a finite list: a _run that began is carried
\* on. For the two calls, fairness is assumed of one of their outcomes only,
\* which weak fairness of the whole step implies: the step is enabled exactly
\* where that outcome is.
FairSpec ==
    /\ Init
    /\ [][Next]_vars
    /\ WF_vars(EmbeddingReturns([kind |-> "timeout"]))
    /\ WF_vars(SearchReturns(Raise("MilvusException", <<"search failed">>)))
    /\ WF_vars(ShapeNext)
    /\ WF_vars(Finish)

\* The DocumentationCrew on its own.
InitCrew == RagParked /\ CrewInit /\ AppInit /\ GitLabParked /\ LLMParked /\ FactoryInit

SpecCrew == InitCrew /\ [][CrewNext]_vars

\* The web form on its own.
SpecApp == InitCrew /\ [][AppNext]_vars

\* The GitLab tool on its own.
InitGitLab ==
    RagParked /\ CrewInit /\ AppInit /\ GitLabInit /\ LLMParked /\ FactoryInit

SpecGitLab == InitGitLab /\ [][GitLabNext]_vars

\* The chat-completion wrappers on their own.
InitLLM == RagParked /\ CrewInit /\ AppInit /\ GitLabParked /\ LLMInit /\ FactoryInit

SpecLLM == InitLLM /\ [][LLMNext]_vars

\* The agent factory on its own.
SpecFactory == InitCrew /\ [][FactoryNext]_vars

====
